---- MODULE Spec2Model ----
(***************************************************************************)
(* Eco-Logro ("Ajusta tu volumen"): the volume pipeline of app.js          *)
(* (AudioAnalyzer.getRMSVolume -> EcoLogroApp.updateThermometer ->         *)
(* StateManager.updateState) and the StateManager configuration.           *)
(*                                                                         *)
(* Numbers.  The program computes in IEEE doubles.  Volumes are kept here  *)
(* in fixed point, as a whole number of 1/VolScale units (VolScale = 5, so *)
(* 250 stands for a volume of 50 and 8 for a volume of 1.6).  Times are in *)
(* milliseconds and move in steps of Granule = 200 ms.  With whole-number  *)
(* samples and decayDuration = 1000 ms the linear interpolation of the     *)
(* decay phase is then exact (DecayIsExact below checks it).               *)
(***************************************************************************)
EXTENDS Integers, Sequences, FiniteSets, TLC

VARIABLES
    now,                    \* Date.now() as the last handler read it, ms
    lastSignificantVolume,  \* EcoLogroApp.lastSignificantVolume (fixed point)
    lastVolumeTimestamp,    \* EcoLogroApp.lastVolumeTimestamp, ms
    volumeHoldDuration,     \* EcoLogroApp.volumeHoldDuration, ms
    displayedVolume,        \* EcoLogroApp.displayedVolume (fixed point)
    config,                 \* StateManager.config
    currentState,           \* StateManager.currentState
    previousState,          \* StateManager.previousState ("undefined" at first)
    lastVolume,             \* StateManager.lastVolume (fixed point)
    op,                     \* the handler that ran last
    sample,                 \* the conditioned sample of the last tick (fixed point)
    branch,                 \* the branch updateThermometer took on the last tick
    scen,                   \* how many ticks of the hold scenario have matched
    cfgInput,               \* the argument of the last updateConfiguration call
    rmsIn,                  \* the normalized RMS read by the last getRMSVolume
    rmsOut,                 \* what that getRMSVolume call returned
    stateChangeListeners,   \* StateManager.stateChangeListeners, in push order
    notified,               \* the listener calls the last StateManager method made
    currentSession,         \* SessionTracker.currentSession (NoSession for null)
    isTracking,             \* SessionTracker.isTracking
    timerInterval,          \* SessionTracker.timerInterval (0 for null)
    intervals,              \* the browser's active setInterval timers: id and due time
    started,                \* how many session records have been created or saved
    isInitialized,          \* AudioAnalyzer.isInitialized
    isRunning,              \* EcoLogroApp.isRunning
    isAnalyzing,            \* AudioAnalyzer.isAnalyzing
    isPaused,               \* EcoLogroApp.isPaused
    modalActive,            \* sessionModal carries the class 'active'
    errorsShown,            \* showError calls made by the last of init() and the
                            \* button handlers
    storedSessions,         \* localStorage item 'eco-logro-sessions'
    storedConfig,           \* localStorage item 'eco-logro-config'
    storageMode,            \* how localStorage behaves: "ok", "full" or "denied"
    storageAvailable,       \* StorageManager.storageAvailable
    ticks,                  \* timer ticks since the current session started
    greenTicks,             \* those of them that found the session's state OPTIMAL
    maxSeen,                \* largest volume passed to the tracker in that session
    drops,                  \* OPTIMAL -> other transitions the StateManager reported in it
    summary,                \* what the last endSession() returned (NoSession for null)
    handed,                 \* the records the last handler passed to saveSessionToHistory
    saves,                  \* sessionIds of the records saved while localStorage took
                            \* writes, oldest first, since the item was last removed
    result,                 \* how the last StorageManager call ended
    recent,                 \* the conditioned samples of the last ticks, at most
                            \* historyMaxLength, where the run records them
    twin,                   \* a second run fed the same readings at the same
                            \* times, where the run is paired with one
    animationFrameId,       \* AudioAnalyzer.animationFrameId (0 for null)
    pendingFrames           \* the requestAnimationFrame callbacks of analyze()
                            \* that the browser has yet to run

vars == << now, lastSignificantVolume, lastVolumeTimestamp, volumeHoldDuration,
           displayedVolume, config, currentState, previousState, lastVolume,
           op, sample, branch, scen, cfgInput,
           rmsIn, rmsOut, stateChangeListeners, notified,
           currentSession, isTracking, timerInterval, intervals, started,
           isInitialized, isRunning, isAnalyzing, isPaused, modalActive,
           errorsShown,
           storedSessions, storedConfig, storageMode, storageAvailable,
           ticks, greenTicks, maxSeen, drops, summary, handed, saves,
           result, recent, twin, animationFrameId, pendingFrames >>

appVars == << now, lastSignificantVolume, lastVolumeTimestamp,
              volumeHoldDuration, displayedVolume, sample, branch, scen >>

smVars == << config, currentState, previousState, lastVolume >>

condVars == << rmsIn, rmsOut >>

probeVars == << recent, twin >>

frameVars == << animationFrameId, pendingFrames >>

obsVars == << stateChangeListeners, notified >>

trkVars == << currentSession, isTracking, timerInterval, intervals, started,
              ticks, greenTicks, maxSeen, drops, summary, handed >>

uiVars == << isInitialized, isRunning, isAnalyzing, isPaused, modalActive,
             errorsShown, animationFrameId, pendingFrames >>

stoVars == << storedSessions, storedConfig, storageMode, storageAvailable,
              saves, result >>

----------------------------------------------------------------------------
(* Program constants *)

\* const decayDuration = 1000
decayDuration == 1000

\* let volume = Math.min(100, rms * 250): the gain
rmsGain == 250

\* the ceiling of a volume
maxVolume == 100

\* if (volume < 8) volume = 0: the noise gate
noiseGate == 8

\* if (volume < 3) return States.SILENT
silenceLevel == 3

\* this.volumeHoldDuration = 2000
defaultHoldDuration == 2000

\* Math.min(85, lowerThreshold)
lowerMax == 85

\* Math.max(15, upperThreshold)
upperMin == 15

\* upperThreshold = lowerThreshold + 10
bandGap == 10

\* parseInt(this.elements.lowerThreshold.value) || 25
fallbackLower == 25

\* parseInt(this.elements.upperThreshold.value) || 75
fallbackUpper == 75

\* this.historyMaxLength = 5
historyMaxLength == 5

\* this.config.dampening / 100, this.config.sensitivity / 100
percent == 100

\* setInterval(() => this.updateTimer(), 1000): the period of the timer, ms
timerPeriod == 1000

\* Math.floor((Date.now() - startTime) / 1000): milliseconds in a second
msPerSecond == 1000

\* consistencyScore: 100, and 100 - penalty
fullScore == 100

\* dropCount * 5
dropPenalty == 5

\* Math.min(dropCount * 5, 80)
maxPenalty == 80

\* history.slice(0, 50)
historyLimit == 50

----------------------------------------------------------------------------
(* Representation and bounds *)

\* ms of one step of the clock
Granule == decayDuration \div 5

\* fixed-point units per unit of volume
VolScale == decayDuration \div Granule

\* a whole-number volume in fixed point
Vol(n) == n * VolScale

\* the normalized RMS is a number of 1/RmsDen in [0,1]
RmsDen == rmsGain * VolScale

\* Date.now() when the app is constructed: far from the 0 the timestamps start at
Epoch == 100 * decayDuration

\* how many steps of Granule ms the clock may move in all
MaxClockSteps == 15

\* how many listeners are registered at most
MaxListeners == 2

\* how many session records one run of the application creates at most
MaxSessions == 3

\* how many transitions a session of the tracker on its own records at most
MaxTransitions == 34

\* how many times the timer fires in a session of the tracker on its own
MaxTicks == 1

\* how many transitions a session records where sessions follow each other
MaxRestartTransitions == 2

\* session records created in a run that fills the history
MaxSaves == 52

Min(a, b) == IF a < b THEN a ELSE b

Max(a, b) == IF a > b THEN a ELSE b

States == {"SILENT", "LOW", "OPTIMAL", "WARNING", "DANGER"}

----------------------------------------------------------------------------
(* AudioAnalyzer.getRMSVolume: the signal conditioner *)

\* Math.min(100, rms * 250) for rms = n / RmsDen, in fixed point
ScaledRMS(n) == Min(Vol(maxVolume), (n * rmsGain * VolScale) \div RmsDen)

\* mutant of NoiseGate: the gate also silences a volume of exactly 8
NoiseGateInclusive(volume) == IF volume <= Vol(noiseGate) THEN 0 ELSE volume

\* if (volume < 8) volume = 0
NoiseGate(volume) == IF volume < Vol(noiseGate) THEN 0 ELSE volume

\* getRMSVolume(): hasData is this.dataArray !== null, n / RmsDen the RMS
getRMSVolume(hasData, n) == IF ~hasData THEN 0 ELSE NoiseGate(ScaledRMS(n))

----------------------------------------------------------------------------
(* EcoLogroApp.updateThermometer: the peak-hold stabilizer *)

\* volume > this.lastSignificantVolume
IsRising(volume, last) == volume > last

\* mutant of InHold: the hold lasts decayDuration, not the configured duration
InHoldFixed(timeSinceLastPeak, hold) == timeSinceLastPeak < decayDuration

\* timeSinceLastPeak < this.volumeHoldDuration
InHold(timeSinceLastPeak, hold) == timeSinceLastPeak < hold

\* mutant of Progress: the Math.min(1, ...) cap is missing
ProgressUncapped(timeInDecay) == timeInDecay

\* Math.min(1, timeInDecay / decayDuration), as a number of 1/decayDuration
Progress(timeInDecay) == Min(decayDuration, timeInDecay)

\* mutant of Interpolate: the two weights are exchanged
InterpolateReversed(last, volume, progress) ==
    (last * progress + volume * (decayDuration - progress)) \div decayDuration

\* lastSignificantVolume * (1 - progress) + volume * progress
Interpolate(last, volume, progress) ==
    (last * (decayDuration - progress) + volume * progress) \div decayDuration

\* mutant of ReAnchors: if (progress > 1), which the cap never lets happen
ReAnchorsStrict(progress) == progress > decayDuration

\* if (progress >= 1)
ReAnchors(progress) == progress >= decayDuration

\* mutant of Rise: the display snaps to the sample, the peak is kept
RiseKeepsPeak(volume, currentTime) ==
    [ lastSignificantVolume |-> lastSignificantVolume,
      lastVolumeTimestamp   |-> currentTime,
      displayedVolume       |-> volume,
      branch                |-> "rise" ]

\* The "Subida" branch: all three fields snap to the sample.
Rise(volume, currentTime) ==
    [ lastSignificantVolume |-> volume,
      lastVolumeTimestamp   |-> currentTime,
      displayedVolume       |-> volume,
      branch                |-> "rise" ]

\* The "Hold" branch.
Hold(last, ts) ==
    [ lastSignificantVolume |-> last,
      lastVolumeTimestamp   |-> ts,
      displayedVolume       |-> last,
      branch                |-> "hold" ]

\* the decay branch whose re-anchoring keeps the old peak
DecayKeepsPeak(volume, currentTime, last, ts, hold) ==
    LET timeSinceLastPeak == currentTime - ts
        timeInDecay == timeSinceLastPeak - hold
        progress == Progress(timeInDecay)
        shown == Interpolate(last, volume, progress)
    IN  IF ReAnchors(progress)
        THEN [ lastSignificantVolume |-> last,
               lastVolumeTimestamp   |-> currentTime,
               displayedVolume       |-> shown,
               branch                |-> "reanchor" ]
        ELSE [ lastSignificantVolume |-> last,
               lastVolumeTimestamp   |-> ts,
               displayedVolume       |-> shown,
               branch                |-> "decay" ]

\* The "Decay" branch, with its re-anchoring when progress reaches 1.
Decay(volume, currentTime, last, ts, hold) ==
    LET timeSinceLastPeak == currentTime - ts
        timeInDecay == timeSinceLastPeak - hold
        progress == Progress(timeInDecay)
        shown == Interpolate(last, volume, progress)
    IN  IF ReAnchors(progress)
        THEN [ lastSignificantVolume |-> volume,
               lastVolumeTimestamp   |-> currentTime,
               displayedVolume       |-> shown,
               branch                |-> "reanchor" ]
        ELSE [ lastSignificantVolume |-> last,
               lastVolumeTimestamp   |-> ts,
               displayedVolume       |-> shown,
               branch                |-> "decay" ]

\* mutant of updateThermometer: the hold is tested before the rising edge
updateThermometerHoldFirst(volume, currentTime, last, ts, hold) ==
    IF InHold(currentTime - ts, hold)
    THEN Hold(last, ts)
    ELSE IF IsRising(volume, last)
         THEN Rise(volume, currentTime)
         ELSE Decay(volume, currentTime, last, ts, hold)

\* Part 1 of updateThermometer(volume), at currentTime = Date.now()
updateThermometer(volume, currentTime, last, ts, hold) ==
    IF IsRising(volume, last)
    THEN Rise(volume, currentTime)
    ELSE IF InHold(currentTime - ts, hold)
         THEN Hold(last, ts)
         ELSE Decay(volume, currentTime, last, ts, hold)

\* parseInt(slider.value) || fallback: 0 is falsy
SliderOr(value, fallback) == IF value = 0 THEN fallback ELSE value

\* Part 3 of updateThermometer(volume): the class the fill is given, the
\* threshold sliders being at lowerSlider and upperSlider
fillClass(displayed, lowerSlider, upperSlider) ==
    LET lower == SliderOr(lowerSlider, fallbackLower)
        upper == SliderOr(upperSlider, fallbackUpper)
    IN  IF displayed > Vol(upper) THEN "fill-high"
        ELSE IF displayed > Vol(lower) THEN "fill-optimal"
        ELSE "fill-low"

----------------------------------------------------------------------------
(* StateManager *)

\* mutant of determineState: the upper threshold is excluded from OPTIMAL
determineStateExclusive(volume, cfg) ==
    IF volume < Vol(silenceLevel) THEN "SILENT"
    ELSE IF volume < Vol(cfg.lowerThreshold) THEN "LOW"
    ELSE IF volume >= Vol(cfg.lowerThreshold) /\ volume < Vol(cfg.upperThreshold)
         THEN "OPTIMAL"
    ELSE "DANGER"

\* mutant of determineState: the top of the band is announced as WARNING
determineStateWarning(volume, cfg) ==
    IF volume < Vol(silenceLevel) THEN "SILENT"
    ELSE IF volume < Vol(cfg.lowerThreshold) THEN "LOW"
    ELSE IF volume > Vol(cfg.upperThreshold) THEN "DANGER"
    ELSE IF volume > Vol(cfg.upperThreshold - bandGap) THEN "WARNING"
    ELSE "OPTIMAL"

\* mutant of determineState: there is no silence zone under the LOW zone
determineStateNoSilent(volume, cfg) ==
    IF volume < Vol(cfg.lowerThreshold) THEN "LOW"
    ELSE IF volume >= Vol(cfg.lowerThreshold) /\ volume <= Vol(cfg.upperThreshold)
         THEN "OPTIMAL"
    ELSE "DANGER"

\* determineState(volume) under the thresholds of cfg
determineState(volume, cfg) ==
    IF volume < Vol(silenceLevel) THEN "SILENT"
    ELSE IF volume < Vol(cfg.lowerThreshold) THEN "LOW"
    ELSE IF volume >= Vol(cfg.lowerThreshold) /\ volume <= Vol(cfg.upperThreshold)
         THEN "OPTIMAL"
    ELSE "DANGER"

\* { ...this.config, ...newConfig }: newConfig is a function on the keys it has
Merge(cfg, newConfig) ==
    [ k \in DOMAIN cfg \cup DOMAIN newConfig |->
        IF k \in DOMAIN newConfig THEN newConfig[k] ELSE cfg[k] ]

\* Math.max(lo, Math.min(hi, x))
Clamp(lo, hi, x) == Max(lo, Min(hi, x))

\* "Validar rangos": the four clamps
ValidateRanges(cfg) ==
    [ cfg EXCEPT !.lowerThreshold = Clamp(0, lowerMax, @),
                 !.upperThreshold = Clamp(upperMin, maxVolume, @),
                 !.sensitivity    = Clamp(0, maxVolume, @),
                 !.dampening      = Clamp(0, maxVolume, @) ]

\* mutant of EnsureOrder: if (lower > upper), so equal thresholds pass
EnsureOrderStrict(cfg) ==
    IF cfg.lowerThreshold > cfg.upperThreshold
    THEN [ cfg EXCEPT !.upperThreshold = cfg.lowerThreshold + bandGap ]
    ELSE cfg

\* mutant of EnsureOrder: upperThreshold += 10
EnsureOrderRaise(cfg) ==
    IF cfg.lowerThreshold >= cfg.upperThreshold
    THEN [ cfg EXCEPT !.upperThreshold = cfg.upperThreshold + bandGap ]
    ELSE cfg

\* "Asegurar que lower < upper"
EnsureOrder(cfg) ==
    IF cfg.lowerThreshold >= cfg.upperThreshold
    THEN [ cfg EXCEPT !.upperThreshold = cfg.lowerThreshold + bandGap ]
    ELSE cfg

\* updateConfiguration(newConfig) that stores nothing
updateConfigurationDeferred(cfg, newConfig) == cfg

\* updateConfiguration(newConfig): the configuration it leaves
updateConfiguration(cfg, newConfig) ==
    EnsureOrder(ValidateRanges(Merge(cfg, newConfig)))

\* the constructor's this.config
DefaultConfig ==
    [ lowerThreshold |-> 25, upperThreshold |-> 75,
      sensitivity |-> 85, dampening |-> 20 ]

\* updateState(volume): the state tags it leaves and whether it notifies
updateState(volume, cfg, cur, prev) ==
    LET newState == determineState(volume, cfg)
        stateChanged == newState # cur
    IN  [ currentState  |-> IF stateChanged THEN newState ELSE cur,
          previousState |-> IF stateChanged THEN cur ELSE prev,
          stateChanged  |-> stateChanged ]

\* notifyStateChange() calling the listeners last to first
notifyStateChangeReversed(listeners, cur, prev) ==
    [ i \in 1..Len(listeners) |->
        [ listener |-> listeners[Len(listeners) + 1 - i],
          state |-> cur, previousState |-> prev ] ]

\* notifyStateChange(): forEach over the listeners, each called with the
\* state tags as updateState has just set them
notifyStateChange(listeners, cur, prev) ==
    [ i \in 1..Len(listeners) |->
        [ listener |-> listeners[i], state |-> cur, previousState |-> prev ] ]

\* the calls updateState makes: notifyStateChange() inside if (stateChanged)
Notifications(listeners, stateData) ==
    IF stateData.stateChanged
    THEN notifyStateChange(listeners, stateData.currentState,
                           stateData.previousState)
    ELSE << >>

----------------------------------------------------------------------------
(* SessionTracker *)

\* this.currentSession = null
NoSession == [ sessionId |-> 0 ]

\* Math.round of a fixed-point volume: the nearest whole number, halves up
MathRound(volume) == (2 * volume + VolScale) \div (2 * VolScale)

\* the elapsed time kept by counting: one second more per call
ElapsedSecondsCounted(session, time) == session.totalDuration + 1

\* Math.floor((time - startTime) / 1000)
ElapsedSeconds(session, time) == (time - session.startTime) \div msPerSecond

\* the record startSession() creates; lastGreenTime 0 stands for null
NewSession(id, time) ==
    [ sessionId        |-> id,
      startTime        |-> time,
      totalDuration    |-> 0,
      greenZoneTime    |-> 0,
      peakVolume       |-> 0,
      consistencyScore |-> fullScore,
      dropCount        |-> 0,
      stateHistory     |-> << >>,
      currentState     |-> "SILENT",
      lastGreenTime    |-> 0 ]

\* calculateConsistency() without the cap on the penalty
calculateConsistencyUncapped(session) ==
    IF session = NoSession THEN fullScore
    ELSE IF session.greenZoneTime = 0 THEN 0
    ELSE Max(0, fullScore - session.dropCount * dropPenalty)

\* calculateConsistency()
calculateConsistency(session) ==
    IF session = NoSession THEN fullScore
    ELSE IF session.greenZoneTime = 0 THEN 0
    ELSE Max(0, fullScore - Min(session.dropCount * dropPenalty, maxPenalty))

\* endSession() past its guard: the record it finalizes and returns a copy of
Finalize(session, time) ==
    LET timed == [ session EXCEPT !.totalDuration = ElapsedSeconds(session, time) ]
    IN  [ timed EXCEPT !.consistencyScore = calculateConsistency(timed) ]

\* updateTimer() that leaves greenZoneTime alone
TimerTickNoGreen(session, time) ==
    IF session = NoSession THEN session
    ELSE [ session EXCEPT !.totalDuration = ElapsedSeconds(session, time) ]

\* updateTimer() counting a second whatever the state
TimerTickAlways(session, time) ==
    IF session = NoSession THEN session
    ELSE [ session EXCEPT !.totalDuration = ElapsedSeconds(session, time),
                          !.greenZoneTime = @ + 1 ]

\* updateTimer()
TimerTick(session, time) ==
    IF session = NoSession THEN session
    ELSE [ session EXCEPT
             !.totalDuration = ElapsedSeconds(session, time),
             !.greenZoneTime =
                 IF session.currentState = "OPTIMAL" THEN @ + 1 ELSE @ ]

\* the peak of updateState(stateData) with Math.floor for Math.round
PeakUnrounded(peak, volume) ==
    IF volume > Vol(peak) THEN volume \div VolScale ELSE peak

\* if (volume > peakVolume) peakVolume = Math.round(volume)
Peak(peak, volume) ==
    IF volume > Vol(peak) THEN MathRound(volume) ELSE peak

\* if (stateChanged) { ... if (previousState === 'OPTIMAL' && state !== 'OPTIMAL')
IsDrop(previous, state, stateChanged) ==
    stateChanged /\ previous = "OPTIMAL" /\ state # "OPTIMAL"

\* updateState(stateData) without the isTracking test of its guard
TrackerUpdateStateUntracked(session, tracking, stateData, time) ==
    IF session = NoSession THEN session
    ELSE [ session EXCEPT
             !.currentState = stateData.state,
             !.peakVolume = Peak(@, stateData.volume),
             !.stateHistory =
                 IF stateData.stateChanged
                 THEN Append(@, [ state |-> stateData.state, timestamp |-> time,
                                  volume |-> MathRound(stateData.volume) ])
                 ELSE @,
             !.dropCount =
                 IF IsDrop(session.currentState, stateData.state,
                           stateData.stateChanged)
                 THEN @ + 1 ELSE @,
             !.lastGreenTime =
                 IF stateData.state = "OPTIMAL"
                 THEN (IF @ = 0 THEN time ELSE @)
                 ELSE 0 ]

\* SessionTracker.updateState(stateData), stateData being { state, volume,
\* stateChanged }, read at the given time
TrackerUpdateState(session, tracking, stateData, time) ==
    IF ~tracking \/ session = NoSession THEN session
    ELSE LET previous == session.currentState
             state == stateData.state
             volume == stateData.volume
         IN  [ session EXCEPT
                 !.currentState = state,
                 !.peakVolume = Peak(@, volume),
                 !.stateHistory =
                     IF stateData.stateChanged
                     THEN Append(@, [ state |-> state, timestamp |-> time,
                                      volume |-> MathRound(volume) ])
                     ELSE @,
                 !.dropCount =
                     IF IsDrop(previous, state, stateData.stateChanged)
                     THEN @ + 1 ELSE @,
                 !.lastGreenTime =
                     IF state = "OPTIMAL"
                     THEN (IF @ = 0 THEN time ELSE @)
                     ELSE 0 ]

----------------------------------------------------------------------------
(* localStorage and the two classes that write the session history *)

\* localStorage.getItem(key) === null
NoItem == [ absent |-> TRUE ]

\* JSON.stringify(value): the item holds the text of the value
JSONstringify(value) == [ json |-> value ]

\* JSON.parse(item)
JSONparse(item) == item.json

\* no StorageManager call has been made
NoResult == [ none |-> TRUE ]

\* the call returned value
Returned(value) == [ value |-> value ]

\* an error left the call
Thrown == [ thrown |-> TRUE ]

\* how a call that reports [result, raised] ended
Outcome(call) == IF call.raised THEN Thrown ELSE Returned(call.result)

\* how localStorage may behave: working, out of quota (setItem throws),
\* or access denied (every call throws)
StorageModes == {"ok", "full", "denied"}

GetItemThrows(mode) == mode = "denied"

SetItemThrows(mode) == mode # "ok"

RemoveItemThrows(mode) == mode = "denied"

\* history.slice(0, n) that keeps everything
SliceAll(seq, n) == seq

\* history.slice(0, n) that keeps the last n
SliceTail(seq, n) ==
    SubSeq(seq, Max(1, Len(seq) - n + 1), Len(seq))

\* history.slice(0, n)
Slice(seq, n) == SubSeq(seq, 1, Min(n, Len(seq)))

\* SessionTracker.getSessionHistory()
getSessionHistory(stored, mode) ==
    IF GetItemThrows(mode) THEN << >>
    ELSE IF stored = NoItem THEN << >>
    ELSE JSONparse(stored)

\* saveSessionToHistory(session) without its try / catch
saveSessionToHistoryNoCatch(stored, session, mode) ==
    LET history == << session >> \o getSessionHistory(stored, mode)
        limitedHistory == Slice(history, historyLimit)
    IN  IF SetItemThrows(mode)
        THEN [ stored |-> stored, raised |-> TRUE ]
        ELSE [ stored |-> JSONstringify(limitedHistory), raised |-> FALSE ]

\* SessionTracker.saveSessionToHistory(session): what the item holds
\* afterwards and whether an error leaves the method
saveSessionToHistory(stored, session, mode) ==
    LET history == << session >> \o getSessionHistory(stored, mode)
        limitedHistory == Slice(history, historyLimit)
    IN  IF SetItemThrows(mode)
        THEN [ stored |-> stored, raised |-> FALSE ]
        ELSE [ stored |-> JSONstringify(limitedHistory), raised |-> FALSE ]

\* SessionTracker.clearHistory(): what the item holds afterwards
clearHistory(stored, mode) ==
    IF RemoveItemThrows(mode) THEN stored ELSE NoItem

\* StorageManager.checkStorageAvailability()
checkStorageAvailability(mode) == ~SetItemThrows(mode)

\* StorageManager.getSessions()
getSessions(stored, available, mode) ==
    IF ~available THEN << >>
    ELSE IF GetItemThrows(mode) THEN << >>
    ELSE IF stored = NoItem THEN << >>
    ELSE JSONparse(stored)

\* StorageManager.saveSession(session) letting the error of setItem out
saveSessionNoCatch(stored, session, available, mode) ==
    LET sessions == << session >> \o getSessions(stored, available, mode)
        limited == Slice(sessions, historyLimit)
    IN  IF SetItemThrows(mode)
        THEN [ stored |-> stored, result |-> FALSE, raised |-> TRUE ]
        ELSE [ stored |-> JSONstringify(limited), result |-> TRUE,
               raised |-> FALSE ]

\* StorageManager.saveSession(session): the item afterwards and the result
saveSession(stored, session, available, mode) ==
    LET sessions == << session >> \o getSessions(stored, available, mode)
        limited == Slice(sessions, historyLimit)
    IN  IF ~available
        THEN [ stored |-> stored, result |-> FALSE, raised |-> FALSE ]
        ELSE IF SetItemThrows(mode)
        THEN [ stored |-> stored, result |-> FALSE, raised |-> FALSE ]
        ELSE [ stored |-> JSONstringify(limited), result |-> TRUE,
               raised |-> FALSE ]

\* StorageManager.clearSessions()
clearSessions(stored, available, mode) ==
    IF ~available
    THEN [ stored |-> stored, result |-> FALSE, raised |-> FALSE ]
    ELSE IF RemoveItemThrows(mode)
    THEN [ stored |-> stored, result |-> FALSE, raised |-> FALSE ]
    ELSE [ stored |-> NoItem, result |-> TRUE, raised |-> FALSE ]

\* StorageManager.saveConfig(config); the lastUpdated stamp it adds is never
\* read back and is left out
saveConfig(stored, newConfig, available, mode) ==
    IF ~available
    THEN [ stored |-> stored, result |-> FALSE, raised |-> FALSE ]
    ELSE IF SetItemThrows(mode)
    THEN [ stored |-> stored, result |-> FALSE, raised |-> FALSE ]
    ELSE [ stored |-> JSONstringify(newConfig), result |-> TRUE,
           raised |-> FALSE ]

\* StorageManager.loadConfig(): NoItem stands for null
loadConfig(stored, available, mode) ==
    IF ~available THEN NoItem
    ELSE IF GetItemThrows(mode) THEN NoItem
    ELSE IF stored = NoItem THEN NoItem
    ELSE JSONparse(stored)

\* StorageManager.getDefaultConfig()
getDefaultConfig ==
    [ sensitivity |-> 85, dampening |-> 20,
      upperThreshold |-> 75, lowerThreshold |-> 25,
      persistenceDuration |-> defaultHoldDuration, studentName |-> "" ]

----------------------------------------------------------------------------
(* SessionTracker.startSession and endSession *)

\* the tracker's fields, the browser's timers and the history item together
Tracker ==
    [ currentSession |-> currentSession,
      isTracking     |-> isTracking,
      timerInterval  |-> timerInterval,
      intervals      |-> intervals,
      started        |-> started,
      storedSessions |-> storedSessions,
      summary        |-> NoSession,
      handed         |-> << >> ]

\* what endSession() leaves in summary when an error leaves it instead
Raised == [ sessionId |-> -1 ]

\* clearInterval(id)
ClearInterval(active, id) == { iv \in active : iv.id # id }

\* setInterval(callback, timerPeriod) at the given time, returning id
SetInterval(active, id, time) ==
    active \cup { [ id |-> id, due |-> time + timerPeriod ] }

\* endSession() past its guard, without the clearInterval
EndTrackedKeepsTimer(T, time, mode) ==
    LET final == Finalize(T.currentSession, time)
        saved == saveSessionToHistory(T.storedSessions, final, mode)
    IN  [ T EXCEPT
            !.isTracking = FALSE,
            !.currentSession = final,
            !.storedSessions = saved.stored,
            !.handed = Append(@, final),
            !.summary = IF saved.raised THEN Raised ELSE final ]

\* endSession() past its guard
EndTracked(T, time, mode) ==
    LET final == Finalize(T.currentSession, time)
        saved == saveSessionToHistory(T.storedSessions, final, mode)
    IN  [ T EXCEPT
            !.isTracking = FALSE,
            !.intervals = IF T.timerInterval # 0
                          THEN ClearInterval(@, T.timerInterval) ELSE @,
            !.timerInterval = 0,
            !.currentSession = final,
            !.storedSessions = saved.stored,
            !.handed = Append(@, final),
            !.summary = IF saved.raised THEN Raised ELSE final ]

\* endSession() whose guard tests currentSession only
endSessionAnyRecord(T, time, mode) ==
    IF T.currentSession = NoSession
    THEN [ T EXCEPT !.summary = NoSession ]
    ELSE EndTracked(T, time, mode)

\* endSession() at the given time; summary is what it returns
endSession(T, time, mode) ==
    IF ~T.isTracking \/ T.currentSession = NoSession
    THEN [ T EXCEPT !.summary = NoSession ]
    ELSE EndTracked(T, time, mode)

\* the second half of startSession(): the new record and its timer
CreateSession(T, time) ==
    LET id == T.started + 1
    IN  [ T EXCEPT
            !.currentSession = NewSession(id, time),
            !.started = id,
            !.isTracking = TRUE,
            !.timerInterval = id,
            !.intervals = SetInterval(@, id, time) ]

\* startSession() that does not end the session in progress
startSessionNoEnd(T, time, mode) == CreateSession(T, time)

\* startSession() at the given time
startSession(T, time, mode) ==
    CreateSession(IF T.isTracking THEN endSession(T, time, mode) ELSE T, time)

----------------------------------------------------------------------------
(* Inputs *)

\* normalized RMS readings n / RmsDen a tick may see: silence, one under the
\* gate, 10, 50 and a reading the ceiling cuts to 100
RmsSamples == {0, 35, 50, 250, 600}

\* positions of the persistence slider, ms
PersistenceValues == {0, 3 * Granule, defaultHoldDuration}

\* positions of the four sliders that saveConfiguration reads
SliderConfigs ==
    { [ lowerThreshold |-> 25, upperThreshold |-> 75,
        sensitivity |-> 85, dampening |-> 20 ],
      [ lowerThreshold |-> 70, upperThreshold |-> 30,
        sensitivity |-> 50, dampening |-> 0 ] }

\* the hold scenario: samples 50, 50, 10, 10, one per tick
ScenarioSamples == << 50, 50, 10, 10 >>

\* ... 600 ms apart
ScenarioSpacing == 3 * Granule

\* the hold scenario's configuration is in force
ScenarioConfig ==
    /\ config.lowerThreshold = 25
    /\ config.upperThreshold = 75
    /\ volumeHoldDuration = defaultHoldDuration

\* the scenario's progress after a tick with sample s, dt ms after the last tick
ScenarioNext(s, dt) ==
    IF /\ ScenarioConfig /\ scen \in 1..3 /\ dt = ScenarioSpacing
       /\ s = Vol(ScenarioSamples[scen + 1])
    THEN scen + 1
    ELSE IF /\ ScenarioConfig /\ s = Vol(ScenarioSamples[1])
            /\ lastSignificantVolume < s
         THEN 1
         ELSE 0

----------------------------------------------------------------------------
(* The application: EcoLogroApp *)

NoInput == [ k \in {} |-> 0 ]

Init ==
    /\ now = Epoch
    /\ lastSignificantVolume = 0
    /\ lastVolumeTimestamp = 0
    /\ volumeHoldDuration = defaultHoldDuration
    /\ displayedVolume = 0
    /\ config = DefaultConfig
    /\ currentState = "SILENT"
    /\ previousState = "undefined"
    /\ lastVolume = 0
    /\ op = "init"
    /\ sample = 0
    /\ branch = "none"
    /\ scen = 0
    /\ cfgInput = NoInput
    /\ rmsIn = 0
    /\ rmsOut = 0
    /\ stateChangeListeners = << >>
    /\ notified = << >>
    /\ currentSession = NoSession
    /\ isTracking = FALSE
    /\ timerInterval = 0
    /\ intervals = {}
    /\ started = 0
    /\ isInitialized = FALSE
    /\ isRunning = FALSE
    /\ isAnalyzing = FALSE
    /\ isPaused = FALSE
    /\ modalActive = FALSE
    /\ errorsShown = 0
    /\ storedSessions = NoItem
    /\ storedConfig = NoItem
    /\ storageMode = "ok"
    /\ storageAvailable = TRUE
    /\ ticks = 0
    /\ greenTicks = 0
    /\ maxSeen = 0
    /\ drops = 0
    /\ summary = NoSession
    /\ handed = << >>
    /\ saves = << >>
    /\ result = NoResult
    /\ recent = << >>
    /\ twin = [ config                |-> DefaultConfig,
                volumeHoldDuration    |-> defaultHoldDuration,
                lastSignificantVolume |-> 0,
                lastVolumeTimestamp   |-> 0,
                displayedVolume       |-> 0,
                currentState          |-> "SILENT",
                previousState         |-> "undefined" ]
    /\ animationFrameId = 0
    /\ pendingFrames = 0

\* the times that may pass between two readings of Date.now(), ms
TimeSteps == {Granule, 3 * Granule, 5 * Granule}

\* what handleVolumeUpdate reads and writes: the thermometer, the state
\* manager, the tracker's record and what is recorded about the tick
Meter ==
    [ lastSignificantVolume |-> lastSignificantVolume,
      lastVolumeTimestamp |-> lastVolumeTimestamp,
      displayedVolume |-> displayedVolume,
      currentState |-> currentState,
      previousState |-> previousState,
      lastVolume |-> lastVolume,
      sample |-> sample,
      branch |-> branch,
      notified |-> notified,
      currentSession |-> currentSession,
      maxSeen |-> maxSeen,
      drops |-> drops ]

\* the thermometer and the state manager take the values of the record M
SetMeter(M) ==
    /\ lastSignificantVolume' = M.lastSignificantVolume
    /\ lastVolumeTimestamp' = M.lastVolumeTimestamp
    /\ displayedVolume' = M.displayedVolume
    /\ currentState' = M.currentState
    /\ previousState' = M.previousState
    /\ lastVolume' = M.lastVolume
    /\ sample' = M.sample
    /\ branch' = M.branch
    /\ notified' = M.notified

\* handleVolumeUpdate(volume), the analyzer's onVolumeUpdate callback, at
\* currentTime on the normalized RMS reading n: nothing while paused;
\* otherwise getRMSVolume, updateThermometer, stateManager.updateState on the
\* displayed volume, sessionTracker.updateState on what it returned
onVolumeUpdate(M, paused, tracking, listeners, cfg, hold, n, currentTime) ==
    IF paused THEN M
    ELSE
    LET rmsVolume == getRMSVolume(TRUE, n)
        t == updateThermometer(rmsVolume, currentTime, M.lastSignificantVolume,
                               M.lastVolumeTimestamp, hold)
        stateData == updateState(t.displayedVolume, cfg, M.currentState,
                                 M.previousState)
    IN  [ lastSignificantVolume |-> t.lastSignificantVolume,
          lastVolumeTimestamp |-> t.lastVolumeTimestamp,
          displayedVolume |-> t.displayedVolume,
          currentState |-> stateData.currentState,
          previousState |-> stateData.previousState,
          lastVolume |-> t.displayedVolume,
          sample |-> rmsVolume,
          branch |-> t.branch,
          notified |-> Notifications(listeners, stateData),
          currentSession |->
              TrackerUpdateState(M.currentSession, tracking,
                                 [ state |-> stateData.currentState,
                                   volume |-> t.displayedVolume,
                                   stateChanged |-> stateData.stateChanged ],
                                 currentTime),
          maxSeen |-> IF tracking THEN Max(M.maxSeen, t.displayedVolume)
                                  ELSE M.maxSeen,
          drops |-> IF /\ tracking /\ M.currentState = "OPTIMAL"
                       /\ stateData.currentState # "OPTIMAL"
                    THEN M.drops + 1 ELSE M.drops ]

\* handleVolumeUpdate: one tick of the analysis loop, dt ms after the last
\* reading of the clock, reading an RMS of n / RmsDen
handleVolumeUpdate(dt, n) ==
    \E currentTime \in {now + dt}, rmsVolume \in {getRMSVolume(TRUE, n)} :
    \E M \in {onVolumeUpdate(Meter, isPaused, isTracking, stateChangeListeners,
                              config, volumeHoldDuration, n, currentTime)} :
        /\ ~isPaused
        /\ currentTime <= Epoch + MaxClockSteps * Granule
        /\ now' = currentTime
        /\ SetMeter(M)
        /\ op' = "tick"
        /\ scen' = ScenarioNext(rmsVolume, dt)
        /\ currentSession' = M.currentSession
        /\ maxSeen' = M.maxSeen
        /\ drops' = M.drops
        /\ summary' = NoSession
        /\ handed' = << >>
        /\ UNCHANGED << volumeHoldDuration, config, cfgInput,
                        stateChangeListeners >>
        /\ UNCHANGED << isTracking, timerInterval, intervals, started, ticks,
                        greenTicks >>
        /\ UNCHANGED condVars
        /\ UNCHANGED << isInitialized, isRunning, isAnalyzing, isPaused,
                        modalActive, errorsShown >>
        /\ UNCHANGED stoVars

\* saveConfiguration: the sliders say c, the persistence slider says hold
saveConfiguration(c, hold) ==
    LET newConfig == [ k \in DOMAIN c \cup {"persistenceDuration"} |->
                         IF k = "persistenceDuration" THEN hold ELSE c[k] ]
    IN  /\ config' = updateConfiguration(config, newConfig)
        /\ volumeHoldDuration' = newConfig.persistenceDuration
        /\ cfgInput' = newConfig
        /\ op' = "save"
        /\ scen' = 0
        /\ \E saved \in {saveConfig(storedConfig, newConfig, storageAvailable,
                                     storageMode)} :
              /\ storedConfig' = saved.stored
              /\ result' = Outcome(saved)
        /\ UNCHANGED << now, lastSignificantVolume, lastVolumeTimestamp,
                        displayedVolume, sample, branch,
                        currentState, previousState, lastVolume >>
        /\ UNCHANGED condVars
        /\ UNCHANGED << trkVars, uiVars >>
        /\ UNCHANGED << storedSessions, storageMode, storageAvailable, saves >>
        /\ notified' = << >>
        /\ UNCHANGED stateChangeListeners

\* handleVolumeUpdate where nothing is recorded about the run
HandleVolumeUpdate(dt, n) ==
    /\ handleVolumeUpdate(dt, n)
    /\ UNCHANGED << probeVars, frameVars >>

\* saveConfiguration where nothing is recorded about the run
SaveConfiguration(c, hold) ==
    /\ saveConfiguration(c, hold)
    /\ UNCHANGED probeVars

Next ==
    \/ \E dt \in TimeSteps, n \in RmsSamples : HandleVolumeUpdate(dt, n)
    \/ \E c \in SliderConfigs, hold \in PersistenceValues : SaveConfiguration(c, hold)

Spec == Init /\ [][Next]_vars

----------------------------------------------------------------------------
(* Ticks whose values fall on the thresholds *)

\* normalized RMS readings: silence, 2, 25, 75 and 100
ColourSamples == {0, 10, 125, 375, 600}

\* positions of the sliders: the default ones, and the lower threshold at 0
ColourConfigs ==
    { DefaultConfig, [ DefaultConfig EXCEPT !.lowerThreshold = 0 ] }

NextColour ==
    \/ \E dt \in {Granule, 5 * Granule}, n \in ColourSamples :
          HandleVolumeUpdate(dt, n)
    \/ \E c \in ColourConfigs, hold \in {0, defaultHoldDuration} :
          SaveConfiguration(c, hold)

SpecColour == Init /\ [][NextColour]_vars

----------------------------------------------------------------------------
(* The application with its session: init, the analysis loop, the timer,   *)
(* the summary and the buttons                                             *)

\* AudioAnalyzer.startAnalysis() that does not test isInitialized
startAnalysisUnguarded(initialized, analyzing) == TRUE

\* AudioAnalyzer.startAnalysis(): isAnalyzing afterwards
startAnalysis(initialized, analyzing) ==
    IF initialized THEN TRUE ELSE analyzing

\* the analyzer's frame handle and the callbacks the browser holds
Frames ==
    [ animationFrameId |-> animationFrameId, pendingFrames |-> pendingFrames ]

\* the frame variables take the values of the record F
SetFrames(F) ==
    /\ animationFrameId' = F.animationFrameId
    /\ pendingFrames' = F.pendingFrames

\* the end of analyze(): this.animationFrameId = requestAnimationFrame(...),
\* a new callback whose handle replaces the one held
requestAnimationFrame(F) ==
    [ animationFrameId |-> 1, pendingFrames |-> F.pendingFrames + 1 ]

\* startAnalysis(): past its guard it calls analyze(), which requests a frame
startAnalysisFrames(initialized, F) ==
    IF initialized THEN requestAnimationFrame(F) ELSE F

\* stopAnalysis(): cancelAnimationFrame(this.animationFrameId) if it is set,
\* which takes the callback of that handle from the browser
stopAnalysis(F) ==
    IF F.animationFrameId # 0
    THEN [ animationFrameId |-> 0, pendingFrames |-> F.pendingFrames - 1 ]
    ELSE F

\* EcoLogroApp.handleError(errorInfo): the showError calls it makes, one in
\* either branch
handleError == 1

\* AudioAnalyzer.handleError(message, error): the showError calls that follow
\* through onError, which setupServiceCallbacks has set to handleError
AnalyzerHandleError(callbackSet) == IF callbackSet THEN handleError ELSE 0

\* the showError calls that follow from startAnalysis()
startAnalysisErrors(initialized, callbackSet) ==
    IF initialized THEN 0 ELSE AnalyzerHandleError(callbackSet)

\* the showError calls of init() when initialize() returns initialized: the
\* one its catch block reports through handleError, and the one of init()
initErrors(initialized) ==
    IF initialized THEN 0 ELSE AnalyzerHandleError(TRUE) + 1

\* the tracker's variables take the values of the record T
SetTracker(T) ==
    /\ currentSession' = T.currentSession
    /\ isTracking' = T.isTracking
    /\ timerInterval' = T.timerInterval
    /\ intervals' = T.intervals
    /\ started' = T.started
    /\ storedSessions' = T.storedSessions
    /\ summary' = T.summary
    /\ handed' = T.handed
    /\ saves' = IF SetItemThrows(storageMode) THEN saves
                ELSE saves \o [ i \in 1..Len(T.handed) |-> T.handed[i].sessionId ]
    /\ ticks' = IF T.started # started THEN 0 ELSE ticks
    /\ greenTicks' = IF T.started # started THEN 0 ELSE greenTicks
    /\ maxSeen' = IF T.started # started THEN 0 ELSE maxSeen
    /\ drops' = IF T.started # started THEN 0 ELSE drops

\* the first call of analyze(), which startAnalysis() makes itself: at time
\* it reads n and, as isAnalyzing is true, hands it to handleVolumeUpdate
analyzeNow(M, initialized, paused, tracking, listeners, cfg, hold, n, time) ==
    IF initialized
    THEN onVolumeUpdate(M, paused, tracking, listeners, cfg, hold, n, time)
    ELSE M

\* init(), the analyser reading n at its first frame: loadSavedConfiguration,
\* setupServiceCallbacks, then start() if audioAnalyzer.initialize()
\* succeeded: startAnalysis(), then sessionTracker.startSession()
AppInit(initialized, n) ==
    \E stored \in {loadConfig(storedConfig, storageAvailable, storageMode)} :
    \E loaded \in {IF stored = NoItem THEN getDefaultConfig ELSE stored} :
    \E cfg \in {updateConfiguration(config, loaded)} :
    \E hold \in {IF loaded.persistenceDuration = 0
                  THEN defaultHoldDuration
                  ELSE loaded.persistenceDuration} :
    \E listeners \in {Append(stateChangeListeners, "handleStateChange")} :
    \E M \in {analyzeNow([ Meter EXCEPT !.notified = << >> ], initialized,
                          isPaused, isTracking, listeners, cfg, hold, n, now)} :
        /\ stateChangeListeners = << >>
        /\ ~isInitialized
        /\ config' = cfg
        /\ cfgInput' = loaded
        /\ volumeHoldDuration' = hold
        /\ stateChangeListeners' = listeners
        /\ SetMeter(M)
        /\ isInitialized' = initialized
        /\ isRunning' = initialized
        /\ isAnalyzing' = IF initialized
                          THEN startAnalysis(initialized, isAnalyzing)
                          ELSE isAnalyzing
        /\ errorsShown' = initErrors(initialized)
        /\ SetFrames(startAnalysisFrames(initialized, Frames))
        /\ SetTracker(IF initialized THEN startSession(Tracker, now, storageMode)
                                     ELSE Tracker)
        /\ op' = "appInit"
        /\ scen' = 0
        /\ UNCHANGED now
        /\ UNCHANGED << isPaused, modalActive >>
        /\ UNCHANGED << storedConfig, storageMode, storageAvailable, result >>
        /\ UNCHANGED << condVars, probeVars >>

\* a frame of the analysis loop: analyze() calls handleVolumeUpdate.  The
\* event loop runs a timer that is due before it runs the next frame, so a
\* timer is late by less than one frame
Frame(dt, n) ==
    /\ isAnalyzing
    /\ pendingFrames > 0
    /\ \A iv \in intervals : now < iv.due
    /\ handleVolumeUpdate(dt, n)
    /\ SetFrames(requestAnimationFrame([ Frames EXCEPT !.pendingFrames = @ - 1 ]))
    /\ UNCHANGED probeVars

\* a callback of analyze() runs after stopAnalysis: if (!this.isAnalyzing)
\* return
FrameIdle ==
    /\ ~isAnalyzing
    /\ pendingFrames > 0
    /\ pendingFrames' = pendingFrames - 1
    /\ op' = "analyze"
    /\ UNCHANGED << isInitialized, isRunning, isAnalyzing, isPaused,
                    modalActive, errorsShown, animationFrameId >>
    /\ UNCHANGED << appVars, smVars, cfgInput, condVars, probeVars,
                    obsVars, trkVars, stoVars >>

\* the interval timer iv fires, at its due time or late, and is due again
\* one period after it was: updateTimer()
UpdateTimer(iv) ==
    \E time \in {Max(now, iv.due)} :
        /\ iv \in intervals
        /\ time <= Epoch + MaxClockSteps * Granule
        /\ now' = time
        /\ currentSession' = TimerTick(currentSession, time)
        /\ intervals' = SetInterval(ClearInterval(intervals, iv.id), iv.id, iv.due)
        /\ ticks' = ticks + 1
        /\ greenTicks' = IF /\ currentSession # NoSession
                            /\ currentSession.currentState = "OPTIMAL"
                         THEN greenTicks + 1 ELSE greenTicks
        /\ summary' = NoSession
        /\ handed' = << >>
        /\ op' = "updateTimer"
        /\ UNCHANGED << lastSignificantVolume, lastVolumeTimestamp,
                        volumeHoldDuration, displayedVolume, sample, branch, scen >>
        /\ UNCHANGED << isTracking, timerInterval, started, maxSeen, drops >>
        /\ UNCHANGED << smVars, cfgInput, condVars, probeVars,
                        obsVars, uiVars, stoVars >>

\* togglePause(), the analyser reading n if analyze() is called: pausing
\* stops the analysis, resuming starts it
TogglePause(n) ==
    \E M \in {IF isPaused
               THEN analyzeNow(Meter, isInitialized, FALSE, isTracking,
                               stateChangeListeners, config,
                               volumeHoldDuration, n, now)
               ELSE Meter} :
    /\ Len(stateChangeListeners) > 0
    /\ isPaused' = ~isPaused
    /\ SetMeter(M)
    /\ currentSession' = M.currentSession
    /\ maxSeen' = M.maxSeen
    /\ drops' = M.drops
    /\ scen' = IF isPaused /\ isInitialized THEN 0 ELSE scen
    /\ isAnalyzing' = IF isPaused' THEN FALSE
                      ELSE startAnalysis(isInitialized, isAnalyzing)
    /\ errorsShown' = IF isPaused' THEN 0
                ELSE startAnalysisErrors(isInitialized, TRUE)
    /\ SetFrames(IF isPaused' THEN stopAnalysis(Frames)
                 ELSE startAnalysisFrames(isInitialized, Frames))
    /\ op' = "togglePause"
    /\ UNCHANGED << isInitialized, isRunning, modalActive >>
    /\ UNCHANGED << now, volumeHoldDuration, config, cfgInput,
                    stateChangeListeners >>
    /\ UNCHANGED << isTracking, timerInterval, intervals, started, ticks,
                    greenTicks, summary, handed >>
    /\ UNCHANGED << condVars, probeVars, stoVars >>

\* showSessionSummary()
ShowSessionSummary ==
    \E T \in {endSession(Tracker, now, storageMode)} :
        /\ Len(stateChangeListeners) > 0
        /\ op' = "showSessionSummary"
        /\ IF T.summary = NoSession
           THEN /\ summary' = NoSession
                /\ handed' = << >>
                /\ UNCHANGED << currentSession, isTracking, timerInterval,
                                intervals, started, storedSessions, saves,
                                ticks, greenTicks, maxSeen, drops >>
                /\ UNCHANGED << isRunning, isAnalyzing, modalActive,
                                animationFrameId, pendingFrames >>
           ELSE /\ SetTracker(T)
                /\ isRunning' = FALSE
                /\ isAnalyzing' = IF isRunning THEN FALSE ELSE isAnalyzing
                /\ SetFrames(IF isRunning THEN stopAnalysis(Frames) ELSE Frames)
                /\ modalActive' = TRUE
        /\ errorsShown' = 0
        /\ UNCHANGED << isInitialized, isPaused >>
        /\ UNCHANGED << storedConfig, storageMode, storageAvailable, result >>
        /\ UNCHANGED << appVars, smVars, cfgInput, condVars, probeVars,
                        obsVars >>

\* closeModal()
CloseModal ==
    /\ modalActive
    /\ modalActive' = FALSE
    /\ op' = "closeModal"
    /\ errorsShown' = 0
    /\ UNCHANGED << isInitialized, isRunning, isAnalyzing, isPaused,
                    animationFrameId, pendingFrames >>
    /\ UNCHANGED << appVars, smVars, cfgInput, condVars, probeVars,
                    obsVars, trkVars,
                    stoVars >>

\* startNewSession(), dt ms after the last reading of the clock, the
\* analyser reading n if analyze() is called: closeModal,
\* stateManager.reset(), sessionTracker.startSession(), then start(), which
\* unless the application is running calls startAnalysis() and startSession()
StartNewSession(dt, n) ==
    \E time \in {now + dt} :
    \E T1 \in {startSession(Tracker, time, storageMode)} :
    \E M1 \in {[ Meter EXCEPT !.currentState = "SILENT", !.notified = << >>,
                               !.currentSession = T1.currentSession,
                               !.maxSeen = 0, !.drops = 0 ]} :
    \E M \in {IF isRunning THEN M1
               ELSE analyzeNow(M1, isInitialized, isPaused, T1.isTracking,
                               stateChangeListeners, config,
                               volumeHoldDuration, n, time)} :
    \E T2 \in {IF isRunning THEN T1
                ELSE startSession([ T1 EXCEPT !.currentSession = M.currentSession ],
                                  time, storageMode)} :
        /\ modalActive
        /\ started + 2 <= MaxSessions
        /\ time <= Epoch + MaxClockSteps * Granule
        /\ now' = time
        /\ modalActive' = FALSE
        /\ SetMeter(M)
        /\ SetTracker(T2)
        /\ isRunning' = TRUE
        /\ isAnalyzing' = IF isRunning THEN isAnalyzing
                          ELSE startAnalysis(isInitialized, isAnalyzing)
        /\ errorsShown' = IF isRunning THEN 0
                    ELSE startAnalysisErrors(isInitialized, TRUE)
        /\ SetFrames(IF isRunning THEN Frames
                     ELSE startAnalysisFrames(isInitialized, Frames))
        /\ op' = "startNewSession"
        /\ scen' = IF isRunning \/ ~isInitialized \/ isPaused THEN scen ELSE 0
        /\ UNCHANGED << volumeHoldDuration, config, cfgInput,
                        stateChangeListeners >>
        /\ UNCHANGED << isInitialized, isPaused >>
        /\ UNCHANGED << storedConfig, storageMode, storageAvailable, result >>
        /\ UNCHANGED << condVars, probeVars >>

\* normalized RMS readings of the frames of a session: silence, 51 and a
\* reading the ceiling cuts to 100
SessionSamples == {0, 255, 600}

\* the times between two frames of a session, ms
SessionSteps == {Granule, 4 * Granule}

NextSession ==
    \/ \E initialized \in BOOLEAN, n \in {0} : AppInit(initialized, n)
    \/ \E dt \in SessionSteps, n \in SessionSamples : Frame(dt, n)
    \/ \E iv \in intervals : UpdateTimer(iv)
    \/ ShowSessionSummary
    \/ CloseModal
    \/ \E dt \in {Granule}, n \in {0, 255} : StartNewSession(dt, n)

SpecSession == Init /\ [][NextSession]_vars

\* destroy(), the beforeunload handler: stop(), audioAnalyzer.destroy(), and
\* endSession() if a session is active
Destroy ==
    \E T \in {endSession(Tracker, now, storageMode)} :
    \E F \in {stopAnalysis(IF isRunning THEN stopAnalysis(Frames) ELSE Frames)} :
        /\ Len(stateChangeListeners) > 0
        /\ op # "destroy"
        /\ isRunning' = FALSE
        /\ isAnalyzing' = FALSE
        /\ isInitialized' = FALSE
        /\ SetFrames(F)
        /\ IF isTracking
           THEN SetTracker(T)
           ELSE /\ summary' = NoSession
                /\ handed' = << >>
                /\ UNCHANGED << currentSession, isTracking, timerInterval,
                                intervals, started, storedSessions, saves,
                                ticks, greenTicks, maxSeen, drops >>
        /\ errorsShown' = 0
        /\ op' = "destroy"
        /\ UNCHANGED << isPaused, modalActive >>
        /\ UNCHANGED << storedConfig, storageMode, storageAvailable, result >>
        /\ UNCHANGED << appVars, smVars, cfgInput, condVars, probeVars,
                        obsVars >>

\* the page is loaded again after beforeunload: DOMContentLoaded constructs a
\* new EcoLogroApp with its services; the old page's timers and callbacks
\* are gone, localStorage and the clock are not
PageLoad ==
    /\ op = "destroy"
    /\ started < MaxSessions
    /\ op' = "load"
    /\ lastSignificantVolume' = 0
    /\ lastVolumeTimestamp' = 0
    /\ volumeHoldDuration' = defaultHoldDuration
    /\ displayedVolume' = 0
    /\ sample' = 0
    /\ branch' = "none"
    /\ scen' = 0
    /\ config' = DefaultConfig
    /\ currentState' = "SILENT"
    /\ previousState' = "undefined"
    /\ lastVolume' = 0
    /\ cfgInput' = NoInput
    /\ rmsIn' = 0
    /\ rmsOut' = 0
    /\ stateChangeListeners' = << >>
    /\ notified' = << >>
    /\ currentSession' = NoSession
    /\ isTracking' = FALSE
    /\ timerInterval' = 0
    /\ intervals' = {}
    /\ ticks' = 0
    /\ greenTicks' = 0
    /\ maxSeen' = 0
    /\ drops' = 0
    /\ summary' = NoSession
    /\ handed' = << >>
    /\ isInitialized' = FALSE
    /\ isRunning' = FALSE
    /\ isAnalyzing' = FALSE
    /\ isPaused' = FALSE
    /\ modalActive' = FALSE
    /\ errorsShown' = 0
    /\ animationFrameId' = 0
    /\ pendingFrames' = 0
    /\ storageAvailable' = checkStorageAvailability(storageMode)
    /\ result' = NoResult
    /\ UNCHANGED << now, started, storedSessions, storedConfig, storageMode,
                    saves, probeVars >>

----------------------------------------------------------------------------
(* The application over several page loads: the settings are saved, the    *)
(* page is left and loaded again                                           *)

\* positions of the persistence slider in the page-load runs, ms
ReloadPersistence == {0, defaultHoldDuration}

NextReload ==
    \/ \E n \in {0} : AppInit(TRUE, n)
    \/ \E dt \in {3 * Granule}, n \in {50, 250} : Frame(dt, n)
    \/ \E iv \in intervals : UpdateTimer(iv)
    \/ \E hold \in ReloadPersistence :
          /\ Len(stateChangeListeners) > 0
          /\ SaveConfiguration(DefaultConfig, hold)
    \/ Destroy
    \/ PageLoad

SpecReload == Init /\ [][NextReload]_vars

----------------------------------------------------------------------------
(* The application and its buttons, under a steady signal *)

NextUI ==
    \/ \E initialized \in BOOLEAN, n \in {0} : AppInit(initialized, n)
    \/ \E dt \in {5 * Granule}, n \in {255, 600} : Frame(dt, n)
    \/ \E iv \in intervals : UpdateTimer(iv)
    \/ FrameIdle
    \/ \E n \in {255} : TogglePause(n)
    \/ ShowSessionSummary
    \/ CloseModal
    \/ \E dt \in {Granule}, n \in {255} : StartNewSession(dt, n)

SpecUI == Init /\ [][NextUI]_vars

\* the application without its pause button, with the settings panel saved
\* at any moment: the default positions, or the other thresholds with no
\* persistence
NextSettings ==
    \/ \E initialized \in BOOLEAN, n \in {0} : AppInit(initialized, n)
    \/ \E dt \in {5 * Granule}, n \in {255, 600} : Frame(dt, n)
    \/ \E iv \in intervals : UpdateTimer(iv)
    \/ ShowSessionSummary
    \/ CloseModal
    \/ \E dt \in {Granule}, n \in {255} : StartNewSession(dt, n)
    \/ \E c \in SliderConfigs :
          SaveConfiguration(c, IF c = DefaultConfig THEN defaultHoldDuration
                                                    ELSE 0)

SpecSettings == Init /\ [][NextSettings]_vars

\* a session, its summary and a new session, the persistence slider set to
\* none and saved right after the start
NextRestart ==
    \/ \E n \in {0} : AppInit(TRUE, n)
    \/ \E dt \in {5 * Granule}, n \in {0, 255} : Frame(dt, n)
    \/ \E iv \in intervals : UpdateTimer(iv)
    \/ ShowSessionSummary
    \/ \E dt \in {Granule}, n \in {0} : StartNewSession(dt, n)
    \/ /\ op = "appInit"
       /\ SaveConfiguration(DefaultConfig, 0)

SpecRestart == Init /\ [][NextRestart]_vars

\* the application, its pause button and its summary, with the settings
\* panel saved while the summary of a session is shown: the other thresholds
\* with no persistence
NextEnded ==
    \/ \E n \in {0} : AppInit(TRUE, n)
    \/ \E dt \in {5 * Granule}, n \in {255, 600} : Frame(dt, n)
    \/ \E iv \in intervals : UpdateTimer(iv)
    \/ FrameIdle
    \/ \E n \in {255} : TogglePause(n)
    \/ ShowSessionSummary
    \/ \E dt \in {Granule}, n \in {255} : StartNewSession(dt, n)
    \/ \E c \in SliderConfigs \ {DefaultConfig} :
          /\ currentSession # NoSession
          /\ ~isTracking
          /\ modalActive
          /\ SaveConfiguration(c, 0)

SpecEnded == Init /\ [][NextEnded]_vars

----------------------------------------------------------------------------
(* The SessionTracker on its own: one session, many transitions *)

\* SessionTracker.startSession(), called directly while fewer than limit
\* records have been created
StartSessionWithin(limit) ==
    /\ started < limit
    /\ SetTracker(startSession(Tracker, now, storageMode))
    /\ op' = "startSession"
    /\ UNCHANGED << appVars, smVars, cfgInput, condVars, probeVars,
                    obsVars, uiVars >>
    /\ UNCHANGED << storedConfig, storageMode, storageAvailable, result >>

TrkStartSession == StartSessionWithin(MaxSessions)

\* SessionTracker.endSession(), called directly
TrkEndSession ==
    /\ SetTracker(endSession(Tracker, now, storageMode))
    /\ op' = "endSession"
    /\ UNCHANGED << appVars, smVars, cfgInput, condVars, probeVars,
                    obsVars, uiVars >>
    /\ UNCHANGED << storedConfig, storageMode, storageAvailable, result >>

\* the volume a caller passes along with a state, in fixed point
VolumeOf(state) == IF state = "OPTIMAL" THEN Vol(50) ELSE Vol(10)

\* SessionTracker.updateState(stateData), called directly with the state a
\* StateManager reports and stateChanged as it computes it
TrkUpdateState(state) ==
    /\ isTracking
    /\ \E stateData \in {[ state |-> state, volume |-> VolumeOf(state),
                         stateChanged |-> state # currentSession.currentState ]} :
        /\ Len(currentSession.stateHistory) < MaxTransitions
        /\ currentSession' =
               TrackerUpdateState(currentSession, isTracking, stateData, now)
        /\ maxSeen' = Max(maxSeen, stateData.volume)
        /\ drops' = IF /\ stateData.stateChanged
                       /\ currentSession.currentState = "OPTIMAL"
                    THEN drops + 1 ELSE drops
        /\ summary' = NoSession
        /\ handed' = << >>
        /\ op' = "trackerUpdateState"
        /\ UNCHANGED << isTracking, timerInterval, intervals, started, ticks,
                        greenTicks >>
        /\ UNCHANGED << appVars, smVars, cfgInput, condVars, probeVars,
                        obsVars, uiVars,
                        stoVars >>

NextScore ==
    \/ started = 0 /\ TrkStartSession
    \/ \E state \in {"OPTIMAL", "LOW"} : TrkUpdateState(state)
    \/ \E iv \in intervals : ticks < MaxTicks /\ UpdateTimer(iv)
    \/ TrkEndSession

SpecScore == Init /\ [][NextScore]_vars

----------------------------------------------------------------------------
(* The SessionTracker on its own: several sessions, few transitions each *)

NextTrk ==
    \/ TrkStartSession
    \/ \E state \in {"OPTIMAL", "LOW"} :
          /\ isTracking
          /\ Len(currentSession.stateHistory) < MaxRestartTransitions
          /\ TrkUpdateState(state)
    \/ \E iv \in intervals : ticks < MaxTicks /\ UpdateTimer(iv)
    \/ TrkEndSession

SpecTrk == Init /\ [][NextTrk]_vars

----------------------------------------------------------------------------
(* The SessionTracker and its timer in a page whose timers run late or are *)
(* dropped: time passes with no handler running                            *)

\* dt ms pass in which the page runs nothing
Sleep(dt) ==
    /\ now + dt <= Epoch + MaxClockSteps * Granule
    /\ now' = now + dt
    /\ op' = "sleep"
    /\ UNCHANGED << lastSignificantVolume, lastVolumeTimestamp,
                    volumeHoldDuration, displayedVolume, sample, branch, scen >>
    /\ UNCHANGED << smVars, cfgInput, condVars, probeVars, obsVars, trkVars,
                    uiVars, stoVars >>

\* the pauses of the page, ms: a moment, and more than one timer period
SleepSteps == {Granule, 7 * Granule}

NextTimer ==
    \/ TrkStartSession
    \/ \E dt \in SleepSteps : Sleep(dt)
    \/ \E iv \in intervals : UpdateTimer(iv)
    \/ TrkEndSession

SpecTimer == Init /\ [][NextTimer]_vars

----------------------------------------------------------------------------
(* Paired runs: the same readings at the same times under two sensitivity  *)
(* settings, with the recent conditioned samples on record                 *)

RECURSIVE Sum(_)
Sum(seq) == IF seq = << >> THEN 0 ELSE Head(seq) + Sum(Tail(seq))

\* volumeHistory after push(volume) and the shift() past historyMaxLength
PushVolume(history, volume) ==
    LET pushed == Append(history, volume)
    IN  IF Len(pushed) > historyMaxLength THEN Tail(pushed) ELSE pushed

\* StateManager.applyDampening(volume) over the given volumeHistory: the new
\* history and the value it returns as the fraction num / den
applyDampening(volume, history, dampening) ==
    LET pushed == PushVolume(history, volume)
        len == Len(pushed)
    IN  IF dampening = 0
        THEN [ volumeHistory |-> pushed, num |-> volume, den |-> 1 ]
        ELSE [ volumeHistory |-> pushed,
               num |-> volume * (percent - dampening) * len
                         + Sum(pushed) * dampening,
               den |-> percent * len ]

\* handleVolumeUpdate in the second run: the same clock, the same reading
TwinVolumeUpdate(T, currentTime, rmsVolume) ==
    LET t == updateThermometer(rmsVolume, currentTime, T.lastSignificantVolume,
                               T.lastVolumeTimestamp, T.volumeHoldDuration)
        stateData == updateState(t.displayedVolume, T.config, T.currentState,
                                 T.previousState)
    IN  [ T EXCEPT !.lastSignificantVolume = t.lastSignificantVolume,
                   !.lastVolumeTimestamp = t.lastVolumeTimestamp,
                   !.displayedVolume = t.displayedVolume,
                   !.currentState = stateData.currentState,
                   !.previousState = stateData.previousState ]

\* saveConfiguration in the second run, with its sensitivity slider elsewhere
TwinSaveConfiguration(T, c, hold, sensitivity) ==
    LET newConfig == [ k \in DOMAIN c \cup {"persistenceDuration"} |->
                         IF k = "persistenceDuration" THEN hold
                         ELSE IF k = "sensitivity" THEN sensitivity
                         ELSE c[k] ]
    IN  [ T EXCEPT !.config = updateConfiguration(@, newConfig),
                   !.volumeHoldDuration = newConfig.persistenceDuration ]

\* one frame of both runs
PairedVolumeUpdate(dt, n) ==
    /\ handleVolumeUpdate(dt, n)
    /\ UNCHANGED frameVars
    /\ recent' = PushVolume(recent, getRMSVolume(TRUE, n))
    /\ twin' = TwinVolumeUpdate(twin, now + dt, getRMSVolume(TRUE, n))

\* the settings are saved in both runs, alike but for the sensitivity
PairedSaveConfiguration(c, hold, sensitivity) ==
    /\ saveConfiguration(c, hold)
    /\ twin' = TwinSaveConfiguration(twin, c, hold, sensitivity)
    /\ UNCHANGED recent

\* positions of the sensitivity slider
Sensitivities == {0, 50, 100}

\* normalized RMS readings of the paired runs: silence, 10, 50 and a
\* reading the ceiling cuts to 100
PairedSamples == {0, 50, 250, 600}

NextPaired ==
    \/ \E dt \in {3 * Granule}, n \in PairedSamples : PairedVolumeUpdate(dt, n)
    \/ \E c \in SliderConfigs, hold \in {defaultHoldDuration},
          sensitivity \in Sensitivities :
            PairedSaveConfiguration(c, hold, sensitivity)

SpecPaired == Init /\ [][NextPaired]_vars

\* the analysis loop keeps delivering frames until the clock's bound
SpecPairedFair == SpecPaired /\ WF_vars(NextPaired)

----------------------------------------------------------------------------
(* A signal that settles: the readings vary over the first ticks and stay *)
(* at the last of them from then on, the conditioned samples on record    *)

\* how many ticks may read what they like before the signal settles
VaryTicks == 2

\* the longest persistence duration of the settling runs, ms
SettleHold == 2 * Granule

\* the signal has settled: every further tick repeats the last sample
Settled == Len(recent) >= VaryTicks

\* one frame of a settling run: any reading at first, the same conditioned
\* sample as the tick before once the signal has settled
SettlingVolumeUpdate(dt, n) ==
    /\ volumeHoldDuration <= SettleHold
    /\ Settled => getRMSVolume(TRUE, n) = recent[Len(recent)]
    /\ handleVolumeUpdate(dt, n)
    /\ recent' = PushVolume(recent, getRMSVolume(TRUE, n))
    /\ UNCHANGED << twin, frameVars >>

NextSettle ==
    \/ \E dt \in {Granule, 2 * Granule}, n \in PairedSamples :
          SettlingVolumeUpdate(dt, n)
    \/ \E hold \in {0, SettleHold} :
          /\ recent = << >>
          /\ SaveConfiguration(DefaultConfig, hold)

SpecSettle == Init /\ [][NextSettle]_vars

\* the analysis loop keeps delivering frames until the clock's bound
SpecSettleFair ==
    SpecSettle
    /\ WF_vars(\E dt \in {Granule, 2 * Granule}, n \in PairedSamples :
                  SettlingVolumeUpdate(dt, n))

----------------------------------------------------------------------------
(* The session history in localStorage, written by the SessionTracker and  *)
(* by the StorageManager                                                   *)

\* SessionTracker.clearHistory()
TrkClearHistory ==
    /\ storedSessions' = clearHistory(storedSessions, storageMode)
    /\ saves' = IF RemoveItemThrows(storageMode) THEN saves ELSE << >>
    /\ op' = "clearHistory"
    /\ UNCHANGED << storedConfig, storageMode, storageAvailable, result >>
    /\ UNCHANGED << appVars, smVars, cfgInput, condVars, probeVars,
                    obsVars, uiVars,
                    trkVars >>

\* StorageManager.saveSession(session) with a finished record of the caller's,
\* while fewer than limit records have been created
SMSaveSession(limit) ==
    \E session \in {Finalize(NewSession(started + 1, now), now)} :
    \E saved \in {saveSession(storedSessions, session, storageAvailable,
                              storageMode)} :
        /\ started < limit
        /\ started' = started + 1
        /\ storedSessions' = saved.stored
        /\ result' = Outcome(saved)
        /\ saves' = IF storageAvailable /\ ~SetItemThrows(storageMode)
                    THEN Append(saves, session.sessionId) ELSE saves
        /\ op' = "saveSession"
        /\ UNCHANGED << currentSession, isTracking, timerInterval, intervals,
                        ticks, greenTicks, maxSeen, drops, summary, handed >>
        /\ UNCHANGED << storedConfig, storageMode, storageAvailable >>
        /\ UNCHANGED << appVars, smVars, cfgInput, condVars, probeVars,
                        obsVars, uiVars >>

\* StorageManager.getSessions()
SMGetSessions ==
    /\ result' = Returned(getSessions(storedSessions, storageAvailable,
                                       storageMode))
    /\ op' = "getSessions"
    /\ UNCHANGED << storedSessions, storedConfig, storageMode,
                    storageAvailable, saves >>
    /\ UNCHANGED << appVars, smVars, cfgInput, condVars, probeVars,
                    obsVars, uiVars,
                    trkVars >>

\* StorageManager.clearSessions()
SMClearSessions ==
    \E cleared \in {clearSessions(storedSessions, storageAvailable,
                                  storageMode)} :
        /\ storedSessions' = cleared.stored
        /\ result' = Outcome(cleared)
        /\ saves' = IF storageAvailable /\ ~RemoveItemThrows(storageMode)
                    THEN << >> ELSE saves
        /\ op' = "clearSessions"
        /\ UNCHANGED << storedConfig, storageMode, storageAvailable >>
        /\ UNCHANGED << appVars, smVars, cfgInput, condVars, probeVars,
                        obsVars, uiVars,
                        trkVars >>

\* StorageManager.saveConfig(config)
SMSaveConfig(newConfig) ==
    \E saved \in {saveConfig(storedConfig, newConfig, storageAvailable,
                             storageMode)} :
        /\ storedConfig' = saved.stored
        /\ result' = Outcome(saved)
        /\ op' = "saveConfig"
        /\ UNCHANGED << storedSessions, storageMode, storageAvailable, saves >>
        /\ UNCHANGED << appVars, smVars, cfgInput, condVars, probeVars,
                        obsVars, uiVars,
                        trkVars >>

\* StorageManager.loadConfig()
SMLoadConfig ==
    /\ result' = Returned(loadConfig(storedConfig, storageAvailable,
                                      storageMode))
    /\ op' = "loadConfig"
    /\ UNCHANGED << storedSessions, storedConfig, storageMode,
                    storageAvailable, saves >>
    /\ UNCHANGED << appVars, smVars, cfgInput, condVars, probeVars,
                    obsVars, uiVars,
                    trkVars >>

\* new StorageManager(): the constructor probes localStorage
SMConstructor ==
    /\ storageAvailable' = checkStorageAvailability(storageMode)
    /\ op' = "newStorageManager"
    /\ UNCHANGED << storedSessions, storedConfig, storageMode, saves, result >>
    /\ UNCHANGED << appVars, smVars, cfgInput, condVars, probeVars,
                    obsVars, uiVars,
                    trkVars >>

\* the browser's localStorage starts to behave as mode says
StorageChange(mode) ==
    /\ mode # storageMode
    /\ storageMode' = mode
    /\ op' = "storageChange"
    /\ UNCHANGED << storedSessions, storedConfig, storageAvailable, saves,
                    result >>
    /\ UNCHANGED << appVars, smVars, cfgInput, condVars, probeVars,
                    obsVars, uiVars,
                    trkVars >>

\* the history as either class reads it when localStorage works
StoredHistory ==
    IF storedSessions = NoItem THEN << >> ELSE JSONparse(storedSessions)

\* the last n entries of seq, last one first
NewestFirst(seq, n) ==
    [ i \in 1..Min(n, Len(seq)) |-> seq[Len(seq) + 1 - i] ]

\* sessions are started, ended and saved one after the other, by either
\* class, until the history is more than full; localStorage works
NextHistory ==
    \/ StartSessionWithin(MaxSaves)
    \/ TrkEndSession
    \/ ~isTracking /\ SMSaveSession(MaxSaves)
    \/ TrkClearHistory
    \/ SMClearSessions

SpecHistory == Init /\ [][NextHistory]_vars

----------------------------------------------------------------------------
(* Both classes over a localStorage that may stop working at any moment *)

NextStore ==
    \/ \E mode \in StorageModes : StorageChange(mode)
    \/ SMConstructor
    \/ \E newConfig \in {getDefaultConfig} : SMSaveConfig(newConfig)
    \/ SMLoadConfig
    \/ SMSaveSession(MaxSessions)
    \/ SMGetSessions
    \/ SMClearSessions
    \/ TrkStartSession
    \/ \E iv \in intervals : ticks < MaxTicks /\ UpdateTimer(iv)
    \/ TrkEndSession

SpecStore == Init /\ [][NextStore]_vars

----------------------------------------------------------------------------
(* The StateManager on its own: any caller, any arguments *)

\* volumes passed to updateState, in fixed point: around the silence level 3
\* (2.8, 3), the thresholds and the ends of the scale
SMVolumes == {0, 5, 14, 15, 16, 50, 74, 75, 76, 125, 250, 375, 376, 425, 475, 476, 500}

\* arguments of updateConfiguration that the state machine is exercised under
SMConfigInputs ==
    { [ k \in {} |-> 0 ],
      [ lowerThreshold |-> 0 ],
      [ lowerThreshold |-> 2, upperThreshold |-> 15 ],
      [ upperThreshold |-> 10 ],
      [ lowerThreshold |-> 95, upperThreshold |-> 120 ],
      [ lowerThreshold |-> 25, upperThreshold |-> 75,
        sensitivity |-> 120, dampening |-> -5 ] }

\* StateManager.updateState(volume), called directly
SMUpdateState(volume) ==
    \E stateData \in {updateState(volume, config, currentState, previousState)} :
        /\ currentState' = stateData.currentState
        /\ previousState' = stateData.previousState
        /\ lastVolume' = volume
        /\ op' = "updateState"
        /\ notified' = Notifications(stateChangeListeners, stateData)
        /\ UNCHANGED << config, cfgInput, stateChangeListeners >>
        /\ UNCHANGED appVars
        /\ UNCHANGED << condVars, probeVars >>
        /\ UNCHANGED << trkVars, uiVars, stoVars >>
\* StateManager.updateConfiguration(newConfig), called directly
SMUpdateConfiguration(newConfig) ==
    /\ config' = updateConfiguration(config, newConfig)
    /\ cfgInput' = newConfig
    /\ op' = "updateConfiguration"
    /\ notified' = << >>
    /\ UNCHANGED << currentState, previousState, lastVolume,
                    stateChangeListeners >>
    /\ UNCHANGED appVars
    /\ UNCHANGED << condVars, probeVars >>
    /\ UNCHANGED << trkVars, uiVars, stoVars >>
\* StateManager.reset()
SMReset ==
    /\ currentState' = "SILENT"
    /\ op' = "reset"
    /\ notified' = << >>
    /\ UNCHANGED << config, previousState, lastVolume, cfgInput,
                    stateChangeListeners >>
    /\ UNCHANGED appVars
    /\ UNCHANGED << condVars, probeVars >>
    /\ UNCHANGED << trkVars, uiVars, stoVars >>
\* the callbacks a caller may register
Callbacks == {"handleStateChange", "other"}

\* StateManager.addStateChangeListener(callback)
SMAddStateChangeListener(callback) ==
    /\ Len(stateChangeListeners) < MaxListeners
    /\ stateChangeListeners' = Append(stateChangeListeners, callback)
    /\ notified' = << >>
    /\ op' = "addStateChangeListener"
    /\ UNCHANGED << cfgInput >>
    /\ UNCHANGED smVars
    /\ UNCHANGED appVars
    /\ UNCHANGED << condVars, probeVars >>
    /\ UNCHANGED << trkVars, uiVars, stoVars >>
NextSM ==
    \/ \E volume \in SMVolumes : SMUpdateState(volume)
    \/ \E newConfig \in SMConfigInputs : SMUpdateConfiguration(newConfig)
    \/ SMReset

SpecSM == Init /\ [][NextSM]_vars

----------------------------------------------------------------------------
(* The StateManager and its listeners *)

\* volumes passed to updateState, in fixed point: one per state the default
\* thresholds tell apart (0, 10, 50, 100)
ObsVolumes == {0, 50, 250, 500}

NextObs ==
    \/ \E callback \in Callbacks : SMAddStateChangeListener(callback)
    \/ \E volume \in ObsVolumes : SMUpdateState(volume)
    \/ SMReset

SpecObs == Init /\ [][NextObs]_vars

----------------------------------------------------------------------------
(* updateConfiguration under arbitrary numeric arguments, partial or full *)

\* values a caller may pass for a threshold: below, at, between and above
\* the clamping ranges [0,85] and [15,100]
ThresholdInputs == {-10, 0, 10, 15, 50, 85, 90, 100, 120}

\* values a caller may pass for sensitivity or dampening
LevelInputs == {-5, 50, 150}

\* the keys of a threshold argument
PartialThresholds ==
    { [ k \in {} |-> 0 ] }
    \cup { [ lowerThreshold |-> l ] : l \in ThresholdInputs }
    \cup { [ upperThreshold |-> u ] : u \in ThresholdInputs }
    \cup { [ lowerThreshold |-> l, upperThreshold |-> u ] :
              l \in ThresholdInputs, u \in ThresholdInputs }

\* the keys of a sensitivity / dampening argument
PartialLevels ==
    { [ k \in {} |-> 0 ] }
    \cup { [ sensitivity |-> v ] : v \in LevelInputs }
    \cup { [ dampening |-> v ] : v \in LevelInputs }
    \cup { [ sensitivity |-> v, dampening |-> v ] : v \in LevelInputs }

NextCfg ==
    \/ \E newConfig \in PartialThresholds : SMUpdateConfiguration(newConfig)
    \/ \E newConfig \in PartialLevels : SMUpdateConfiguration(newConfig)

SpecCfg == Init /\ [][NextCfg]_vars

----------------------------------------------------------------------------
(* getRMSVolume under every normalized RMS *)

\* getRMSVolume() with the frequency data present, the RMS being n / RmsDen
ReadRMS(n) ==
    /\ rmsIn' = n
    /\ rmsOut' = getRMSVolume(TRUE, n)
    /\ op' = "getRMSVolume"
    /\ UNCHANGED probeVars
    /\ UNCHANGED appVars
    /\ UNCHANGED smVars
    /\ UNCHANGED cfgInput
    /\ UNCHANGED obsVars
    /\ UNCHANGED << trkVars, uiVars, stoVars >>

\* getRMSVolume() before initialize() has allocated the frequency data
ReadNoData ==
    /\ rmsIn' = -1
    /\ rmsOut' = getRMSVolume(FALSE, 0)
    /\ op' = "getRMSVolume"
    /\ UNCHANGED probeVars
    /\ UNCHANGED appVars
    /\ UNCHANGED smVars
    /\ UNCHANGED cfgInput
    /\ UNCHANGED obsVars
    /\ UNCHANGED << trkVars, uiVars, stoVars >>

NextCond ==
    \/ \E n \in 0..RmsDen : ReadRMS(n)
    \/ ReadNoData

SpecCond == Init /\ [][NextCond]_vars

----------------------------------------------------------------------------
(* Soundness of the representation *)

\* the decay interpolation divides exactly in the fixed-point representation:
\* the displayed value times decayDuration is the undivided weighted sum
DecayIsExact ==
    [][ (op' = "tick" /\ now' # now /\ branch' \in {"decay", "reanchor"})
          => LET progress ==
                   Progress(now' - lastVolumeTimestamp - volumeHoldDuration)
             IN  displayedVolume' * decayDuration
                   = lastSignificantVolume * (decayDuration - progress)
                     + sample' * progress ]_vars

----------------------------------------------------------------------------
(* Claims *)

\* a step that is a tick of the analysis loop
TickStep == op' = "tick" /\ now' # now

\* the time since the last peak that the tick of this step computes
TimeSinceLastPeak == now' - lastVolumeTimestamp

\* C1: a tick whose sample is strictly greater than lastSignificantVolume
\* leaves displayedVolume and lastSignificantVolume equal to the sample and
\* lastVolumeTimestamp equal to the tick's time, whatever time has passed.
C1_RisingEdge ==
    [][ (TickStep /\ sample' > lastSignificantVolume)
          => /\ displayedVolume' = sample'
             /\ lastSignificantVolume' = sample'
             /\ lastVolumeTimestamp' = now' ]_vars

\* a rising edge to 100 after an earlier tick, so within or after a hold
C1_Witness ==
    /\ op = "tick" /\ branch = "rise"
    /\ sample = Vol(maxVolume) /\ displayedVolume = sample
    /\ lastVolumeTimestamp = now
    /\ now > Epoch + Granule

\* C2: a tick whose sample is <= lastSignificantVolume, less than the
\* persistence duration after the last peak, displays lastSignificantVolume
\* and leaves lastSignificantVolume and lastVolumeTimestamp alone; during the
\* scenario (samples 50, 50, 10, 10 at 600 ms, persistence 2000 ms, thresholds
\* 25/75) every tick displays 50 and classifies OPTIMAL.
C2_Hold ==
    /\ [][ (/\ TickStep
            /\ sample' <= lastSignificantVolume
            /\ TimeSinceLastPeak < volumeHoldDuration)
          => /\ displayedVolume' = lastSignificantVolume
             /\ lastSignificantVolume' = lastSignificantVolume
             /\ lastVolumeTimestamp' = lastVolumeTimestamp ]_vars
    /\ [](scen >= 1 => /\ displayedVolume = Vol(50)
                       /\ currentState = "OPTIMAL")

\* the fourth tick of the scenario: sample 10, 1800 ms after the peak of 50
C2_Witness ==
    /\ scen = 4 /\ op = "tick" /\ branch = "hold"
    /\ sample = Vol(10) /\ displayedVolume = Vol(50)
    /\ now - lastVolumeTimestamp = 3 * ScenarioSpacing

\* C3: a tick whose sample is <= lastSignificantVolume, at least the
\* persistence duration plus 1000 ms after the last peak, displays the sample
\* and re-anchors (lastSignificantVolume = sample, lastVolumeTimestamp = now);
\* a falling tick sooner than that does not re-anchor.
C3_DecayBoundary ==
    [][ (TickStep /\ sample' <= lastSignificantVolume)
          => /\ (TimeSinceLastPeak >= volumeHoldDuration + decayDuration)
                  => /\ displayedVolume' = sample'
                     /\ lastSignificantVolume' = sample'
                     /\ lastVolumeTimestamp' = now'
             /\ (TimeSinceLastPeak < volumeHoldDuration + decayDuration)
                  => /\ lastSignificantVolume' = lastSignificantVolume
                     /\ lastVolumeTimestamp' = lastVolumeTimestamp ]_vars

\* a tick that re-anchored below an earlier peak of 50
C3_Witness ==
    /\ op = "tick" /\ branch = "reanchor"
    /\ sample = Vol(10) /\ displayedVolume = sample
    /\ lastSignificantVolume = sample /\ lastVolumeTimestamp = now
    /\ previousState = "OPTIMAL" /\ currentState = "LOW"

C5_NoUpwardJump ==
    [][ (TickStep /\ displayedVolume' > displayedVolume)
          => sample' > displayedVolume ]_vars

\* C6: for a normalized RMS in [0,1] getRMSVolume returns min(100, rms * 250)
\* when that is >= 8 and 0 when it is < 8; the result is never in (0, 8).
C6_Conditioner ==
    (op = "getRMSVolume" /\ rmsIn >= 0)
      => LET scaled == rmsIn * rmsGain * VolScale   \* rms * 250, times RmsDen
             gate == Vol(noiseGate) * RmsDen
             top == Vol(maxVolume) * RmsDen
         IN  /\ Min(top, scaled) >= gate => rmsOut * RmsDen = Min(top, scaled)
             /\ Min(top, scaled) < gate => rmsOut = 0
             /\ rmsOut = 0 \/ (rmsOut >= Vol(noiseGate) /\ rmsOut <= Vol(maxVolume))

\* an RMS of 0.032, which the gain takes to exactly 8: the gate lets it pass
C6_Witness ==
    /\ op = "getRMSVolume"
    /\ rmsIn * rmsGain = noiseGate * RmsDen
    /\ rmsOut = Vol(noiseGate)

\* the volume is inside the configured band, bounds included
InBand(volume, cfg) ==
    /\ Vol(cfg.lowerThreshold) <= volume
    /\ volume <= Vol(cfg.upperThreshold)

\* C7 as stated: every value with lowerThreshold <= v <= upperThreshold is
\* classified OPTIMAL, under every configuration updateConfiguration produces.
C7_OptimalBand ==
    (op = "updateState" /\ InBand(lastVolume, config))
      => currentState = "OPTIMAL"

\* C7 amended: every value v >= 3 with lowerThreshold <= v <= upperThreshold
\* is classified OPTIMAL; a value below 3 is SILENT even inside the band.
C7_OptimalBandAbove3 ==
    (op = "updateState" /\ InBand(lastVolume, config))
      => IF lastVolume >= Vol(silenceLevel)
         THEN currentState = "OPTIMAL"
         ELSE currentState = "SILENT"

\* a value equal to the upper threshold of a configuration that was clamped
C7_Witness ==
    /\ op = "updateState"
    /\ config.lowerThreshold = lowerMax /\ config.upperThreshold = maxVolume
    /\ lastVolume = Vol(config.upperThreshold)
    /\ currentState = "OPTIMAL"

\* C8: every value in [0,100] is classified SILENT, LOW, OPTIMAL or DANGER
\* under the stored configuration, and currentState is never WARNING.
C8_Totality ==
    /\ currentState \in {"SILENT", "LOW", "OPTIMAL", "DANGER"}
    /\ \A v \in 0..Vol(maxVolume) :
          determineState(v, config) \in {"SILENT", "LOW", "OPTIMAL", "DANGER"}

\* a value just under the upper threshold, where a WARNING zone would lie
C8_Witness ==
    /\ op = "updateState"
    /\ lastVolume = Vol(config.upperThreshold) - 1
    /\ currentState = "OPTIMAL" /\ previousState = "DANGER"

\* C9: the stored configuration has 0 <= lowerThreshold <= 85,
\* 15 <= upperThreshold <= 100, lowerThreshold < upperThreshold, and
\* sensitivity and dampening in [0,100].
C9_ThresholdInvariant ==
    /\ 0 <= config.lowerThreshold /\ config.lowerThreshold <= 85
    /\ 15 <= config.upperThreshold /\ config.upperThreshold <= 100
    /\ config.lowerThreshold < config.upperThreshold
    /\ 0 <= config.sensitivity /\ config.sensitivity <= 100
    /\ 0 <= config.dampening /\ config.dampening <= 100

\* both thresholds out of range and in the wrong order: clamped to 85 and 15,
\* then the upper one forced to 95
C9_Witness ==
    /\ op = "updateConfiguration"
    /\ cfgInput = [ lowerThreshold |-> 120, upperThreshold |-> -10 ]
    /\ config.lowerThreshold = 85 /\ config.upperThreshold = 95

\* C10: a second updateConfiguration call with the same argument leaves the
\* configuration the first call left.
C10_Idempotent ==
    op = "updateConfiguration" => updateConfiguration(config, cfgInput) = config

\* a partial argument that moved lowerThreshold past the stored upperThreshold
C10_Witness ==
    /\ op = "updateConfiguration"
    /\ cfgInput = [ lowerThreshold |-> 85 ]
    /\ config.lowerThreshold = 85 /\ config.upperThreshold = 95

\* C11: on every updateState call the listeners are invoked iff the newly
\* classified state differs from currentState before the call; then every
\* registration is called once, in registration order, with state = the new
\* state and previousState = the state before the call; a call that
\* classifies the same state invokes no listener
C11_TransitionDetection ==
    [][ op' = "updateState"
          => LET newState == determineState(lastVolume', config)
             IN  IF newState # currentState
                 THEN /\ Len(notified') = Len(stateChangeListeners)
                      /\ \A i \in 1..Len(stateChangeListeners) :
                            /\ notified'[i].listener = stateChangeListeners[i]
                            /\ notified'[i].state = newState
                            /\ notified'[i].previousState = currentState
                 ELSE notified' = << >> ]_vars

\* a transition LOW -> OPTIMAL announced to two different listeners
C11_Witness ==
    /\ op = "updateState"
    /\ Len(stateChangeListeners) = 2
    /\ stateChangeListeners[1] # stateChangeListeners[2]
    /\ Len(notified) = 2
    /\ notified[1].previousState = "LOW"
    /\ notified[2].state = "OPTIMAL"

\* a step inside one session: the same record before and after
SameSession ==
    /\ currentSession # NoSession
    /\ currentSession'.sessionId = currentSession.sessionId

\* C12: a timer tick of a session adds exactly 1 to greenZoneTime if the
\* session's current state is OPTIMAL at that moment and nothing otherwise;
\* no other step of the session (frame, transition, endSession) changes
\* greenZoneTime
C12_GreenZoneTime ==
    [][ SameSession
          => currentSession'.greenZoneTime
               = currentSession.greenZoneTime
                 + (IF op' = "updateTimer"
                       /\ currentSession.currentState = "OPTIMAL"
                    THEN 1 ELSE 0) ]_vars

\* a tick has just counted a second in OPTIMAL, after a tick that counted
\* none and a visit to OPTIMAL that ended before it
C12_Witness ==
    /\ op = "updateTimer"
    /\ isTracking
    /\ currentSession.greenZoneTime = 1
    /\ ticks > 1
    /\ currentSession.dropCount >= 1

\* C13: the dropCount of a session is the number of transitions out of
\* OPTIMAL that the StateManager has reported to the tracker in that session
\* (drops counts them from the StateManager's own state before and after
\* each frame); frames without a change, transitions into OPTIMAL and
\* transitions between two other states add nothing
C13_DropCount ==
    currentSession # NoSession => currentSession.dropCount = drops

\* a step of a session adds 1 to dropCount exactly when it is a tick (a frame
\* or the first analyze() of a resumed analysis) that changes the StateManager's state to one other than OPTIMAL while the
\* session's own currentState is OPTIMAL; dropCount never exceeds the
\* transitions out of OPTIMAL that the StateManager has made
DropsBySessionState ==
    [][ /\ SameSession
          => currentSession'.dropCount
               = currentSession.dropCount
                 + (IF /\ op' \in {"tick", "togglePause"} /\ isTracking
                       /\ currentState' # currentState
                       /\ currentSession.currentState = "OPTIMAL"
                       /\ currentState' # "OPTIMAL"
                    THEN 1 ELSE 0)
        /\ currentSession' # NoSession => currentSession'.dropCount <= drops'
      ]_vars

\* C14: while a session is tracked its peakVolume is the largest displayed
\* volume passed to the tracker since it started, rounded to the nearest
\* whole number (0 if none was passed); as that maximum only grows,
\* peakVolume never decreases
C14_PeakVolume ==
    (isTracking /\ currentSession # NoSession)
        => currentSession.peakVolume = MathRound(maxSeen)

\* the largest volume seen is fractional and rounds upwards
C14_Witness ==
    /\ isTracking
    /\ maxSeen % VolScale # 0
    /\ Vol(currentSession.peakVolume) > maxSeen

\* C15: every finalized session record has consistencyScore 0 when its
\* greenZoneTime is 0, whatever its dropCount, and otherwise
\* max(0, 100 - min(dropCount * 5, 80)); so, with some green-zone time, the
\* score is exactly 20 once dropCount >= 16, and it always lies in
\* {0} \cup [20, 100]
C15_ConsistencyScore ==
    summary # NoSession
        => LET score == summary.consistencyScore
               dropCount == summary.dropCount
           IN  /\ summary.greenZoneTime = 0 => score = 0
               /\ summary.greenZoneTime # 0
                     => score = Max(0, 100 - Min(dropCount * 5, 80))
               /\ (summary.greenZoneTime # 0 /\ dropCount >= 16) => score = 20
               /\ score = 0 \/ (20 <= score /\ score <= 100)

\* a session finalized with green-zone time and 17 drops
C15_Witness ==
    /\ op = "endSession"
    /\ summary # NoSession
    /\ summary.greenZoneTime > 0
    /\ summary.dropCount > 16
    /\ summary.consistencyScore = 20

\* C16: a session in which N >= 1 timer ticks have fired, each finding the
\* state OPTIMAL, the state never having left OPTIMAL, and which is ended
\* when N whole seconds have elapsed since its start, returns a summary with
\* totalDuration = N, greenZoneTime = N, dropCount = 0 and
\* consistencyScore = 100
C16_AllOptimalSession ==
    ( /\ op = "showSessionSummary"
      /\ summary # NoSession
      /\ ticks >= 1
      /\ greenTicks = ticks
      /\ drops = 0
      /\ (now - summary.startTime) \div 1000 = ticks )
        => /\ summary.totalDuration = ticks
           /\ summary.greenZoneTime = ticks
           /\ summary.dropCount = 0
           /\ summary.consistencyScore = 100

\* the scenario with N = 3: three ticks in OPTIMAL, ended at 3 s
C16_Witness ==
    /\ op = "showSessionSummary"
    /\ summary # NoSession
    /\ ticks = 3
    /\ greenTicks = 3
    /\ drops = 0
    /\ now - summary.startTime = 3000
    /\ summary.totalDuration = 3
    /\ summary.greenZoneTime = 3

\* C17: startSession called while a session is active first finalizes that
\* session (its timer cleared, totalDuration and consistencyScore computed)
\* and hands the record to persistence, and only then creates the new
\* record, whose startTime is not before the end of the old one; after every
\* step at most one session is active: one timer if the tracker is tracking,
\* none otherwise
C17_SessionBoundaries ==
    [][ /\ Cardinality(intervals') <= 1
        /\ isTracking' <=> intervals' # {}
        /\ (op' = "startSession" /\ isTracking)
              => /\ Len(handed') = 1
                 /\ handed'[1].sessionId = currentSession.sessionId
                 /\ handed'[1].totalDuration
                      = (now' - currentSession.startTime) \div 1000
                 /\ handed'[1].consistencyScore
                      = (IF currentSession.greenZoneTime = 0 THEN 0
                         ELSE Max(0, 100 - Min(currentSession.dropCount * 5, 80)))
                 /\ handed'[1].dropCount = currentSession.dropCount
                 /\ JSONparse(storedSessions')[1] = handed'[1]
                 /\ currentSession'.sessionId # currentSession.sessionId
                 /\ currentSession'.startTime
                      >= handed'[1].startTime + handed'[1].totalDuration * 1000
                 /\ currentSession'.totalDuration = 0
                 /\ currentSession'.stateHistory = << >>
                 /\ isTracking'
                 /\ \A iv \in intervals' : iv.id = timerInterval'
                 /\ timerInterval' # timerInterval ]_vars

\* a session with a second of green-zone time and a drop was ended by the
\* start of the next one and is the newest record of the history
C17_Witness ==
    /\ op = "startSession"
    /\ Len(handed) = 1
    /\ handed[1].totalDuration = 1
    /\ handed[1].greenZoneTime = 1
    /\ handed[1].dropCount = 1
    /\ storedSessions # NoItem
    /\ JSONparse(storedSessions)[1] = handed[1]
    /\ currentSession.sessionId = handed[1].sessionId + 1

\* C18: showSessionSummary pressed when no session is being tracked (none
\* was ever started, or the last one has already been ended) gets null from
\* endSession, which changes nothing in the tracker and hands nothing to
\* persistence; the application then neither stops the analysis nor opens
\* the summary
C18_EndWithoutSession ==
    [][ (op' = "showSessionSummary"
           /\ (~isTracking \/ currentSession = NoSession))
          => /\ summary' = NoSession
             /\ handed' = << >>
             /\ UNCHANGED << currentSession, isTracking, timerInterval,
                             intervals, started, storedSessions >>
             /\ UNCHANGED << isRunning, isAnalyzing, modalActive >> ]_vars

\* the summary was asked for a second time, after the session had ended and
\* the modal was closed, while the analysis runs again: nothing happened
C18_Witness ==
    /\ op = "showSessionSummary"
    /\ summary = NoSession
    /\ currentSession # NoSession
    /\ ~isTracking
    /\ isAnalyzing
    /\ ~modalActive
    /\ storedSessions # NoItem
    /\ Len(JSONparse(storedSessions)) = 1

\* C19: the stored history holds min(n, 50) records, where n counts the
\* records saved (by SessionTracker.saveSessionToHistory or by
\* StorageManager.saveSession) since the history was last empty: they are the
\* most recently saved ones, newest first; and a save onto a history of 50
\* leaves exactly 50, the new record first, the 49 newest of the old ones
\* behind it in their order, the oldest one gone
C19_HistoryRetention ==
    /\ [] /\ Len(StoredHistory) = Min(Len(saves), 50)
          /\ [ i \in 1..Len(StoredHistory) |-> StoredHistory[i].sessionId ]
                 = NewestFirst(saves, 50)
    /\ [][ (Len(StoredHistory) = 50 /\ Len(saves') = Len(saves) + 1)
            => /\ Len(StoredHistory') = 50
               /\ StoredHistory'[1].sessionId = saves'[Len(saves')]
               /\ SubSeq(StoredHistory', 2, 50) = SubSeq(StoredHistory, 1, 49)
               /\ \A i \in 1..50 : StoredHistory'[i] # StoredHistory[50] ]_vars

\* a 51st record has just been saved onto a full history: 50 are kept, the
\* new one first, and the first one ever saved is no longer among them
C19_Witness ==
    /\ op \in {"startSession", "endSession", "saveSession"}
    /\ Len(saves) = 51
    /\ Len(StoredHistory) = 50
    /\ StoredHistory[1].sessionId = saves[51]
    /\ \A i \in 1..50 : StoredHistory[i].sessionId # saves[1]

\* C20: when localStorage is declared unavailable or throws, no persistence
\* call lets the error out: saveConfig, saveSession and clearSessions return
\* false, loadConfig returns null, getSessions returns an empty list, and
\* endSession still ends the session (isTracking false, its timer cleared)
\* and returns the whole finalized record
C20_PersistenceUnavailable ==
    [][ /\ (op' \in {"saveConfig", "saveSession", "clearSessions",
                      "loadConfig", "getSessions"})
              => result' # Thrown
        /\ (/\ op' \in {"saveConfig", "saveSession"}
            /\ (~storageAvailable \/ SetItemThrows(storageMode)))
              => /\ result' = Returned(FALSE)
                 /\ UNCHANGED << storedConfig, storedSessions >>
        /\ (/\ op' = "clearSessions"
            /\ (~storageAvailable \/ RemoveItemThrows(storageMode)))
              => /\ result' = Returned(FALSE)
                 /\ UNCHANGED storedSessions
        /\ (/\ op' = "loadConfig"
            /\ (~storageAvailable \/ GetItemThrows(storageMode)))
              => result' = Returned(NoItem)
        /\ (/\ op' = "getSessions"
            /\ (~storageAvailable \/ GetItemThrows(storageMode)))
              => result' = Returned(<< >>)
        /\ (op' = "endSession" /\ isTracking /\ storageMode # "ok")
              => /\ ~isTracking'
                 /\ timerInterval' = 0
                 /\ intervals' = {}
                 /\ summary' = Finalize(currentSession, now)
                 /\ summary' # Raised
                 /\ currentSession' = summary'
                 /\ UNCHANGED storedSessions ]_vars

\* with localStorage denying every call and the StorageManager built over it,
\* a session that ran for a second has been ended: its summary came back
\* although nothing could be stored
C20_Witness ==
    /\ op = "endSession"
    /\ storageMode = "denied"
    /\ ~storageAvailable
    /\ summary # NoSession
    /\ summary.totalDuration >= 1
    /\ ~isTracking
    /\ intervals = {}
    /\ storedSessions = NoItem

\* init() has run and AudioAnalyzer.initialize() failed
CaptureUnavailable == Len(stateChangeListeners) > 0 /\ ~isInitialized

\* C21: when AudioAnalyzer.initialize fails during init nothing is started,
\* and it stays so whatever the pause button and the end-session button do
\* afterwards: isRunning is false, no analysis loop runs, no session exists
\* (not tracking, no record, no timer, nothing saved), displayedVolume and
\* lastSignificantVolume are 0 and the classifier is SILENT
C21_CaptureUnavailable ==
    CaptureUnavailable
      => /\ ~isRunning
         /\ ~isAnalyzing
         /\ ~isTracking
         /\ currentSession = NoSession
         /\ timerInterval = 0
         /\ intervals = {}
         /\ started = 0
         /\ storedSessions = NoItem
         /\ displayedVolume = 0
         /\ lastSignificantVolume = 0
         /\ lastVolumeTimestamp = 0
         /\ currentState = "SILENT"

\* after the failed init the pause button was pressed twice: the second
\* press asked the analyzer to start again, which it refused with an error
C21_Witness ==
    /\ CaptureUnavailable
    /\ op = "togglePause"
    /\ ~isPaused
    /\ errorsShown = 1
    /\ ~isAnalyzing

\* C22: when AudioAnalyzer.initialize fails during init, init() shows the
\* error to the user exactly once
C22_ErrorShownOnce ==
    (op = "appInit" /\ CaptureUnavailable) => errorsShown = 1

\* C23: on every tick the hold-and-decay envelope is fed the dampened
\* sample, i.e. what applyDampening makes of the conditioned sample and the
\* recent ones: the displayed value is the envelope's result for that value
\* (stated for the ticks whose dampened value is exact in fixed point)
C23_DampenedSample ==
    [][ op' = "tick"
        => \E d \in {applyDampening(sample', recent, config.dampening)} :
              d.num % d.den = 0
                => displayedVolume' =
                     updateThermometer(d.num \div d.den, now',
                                       lastSignificantVolume,
                                       lastVolumeTimestamp,
                                       volumeHoldDuration).displayedVolume
      ]_vars

\* the two runs have different sensitivities configured
SensitivityApart == twin.config.sensitivity # config.sensitivity

\* the two runs show different intensities or are in different states
Differ ==
    \/ twin.displayedVolume # displayedVolume
    \/ twin.currentState # currentState

\* C24: the configured sensitivity influences the output: two runs that are
\* alike but for the sensitivity come to differ in the displayed intensity or
\* in the classified state
C24_SensitivityInfluence == SensitivityApart ~> Differ

\* the two runs never differ, whatever the readings and the sensitivities
SensitivityIgnored == ~Differ

\* the runs have had sensitivities 85 and 0 for three frames or more, the
\* last one loud
SensitivityIgnored_Witness ==
    /\ config.sensitivity = 85
    /\ twin.config.sensitivity = 0
    /\ Len(recent) >= 3
    /\ op = "tick"
    /\ displayedVolume = Vol(100)

OutsideBand(volume, cfg) ==
    IF volume < Vol(3) THEN "SILENT"
    ELSE IF volume < Vol(cfg.lowerThreshold) THEN "LOW"
    ELSE IF volume > Vol(cfg.upperThreshold) THEN "DANGER"
    ELSE "band"

\* C26: under every configuration updateConfiguration leaves behind,
\* determineState gives SILENT for every value < 3, LOW for every value with
\* 3 <= value < lowerThreshold and DANGER for every value > upperThreshold;
\* so does every updateState call for the value it was given
C26_NonOptimalZones ==
    /\ \A v \in 0..(Vol(maxVolume) + VolScale) :
          OutsideBand(v, config) # "band"
            => determineState(v, config) = OutsideBand(v, config)
    /\ (op = "updateState" /\ OutsideBand(lastVolume, config) # "band")
          => currentState = OutsideBand(lastVolume, config)

\* a value under the raised lower threshold of a changed configuration, which
\* the default configuration would not call LOW
C26_Witness ==
    /\ op = "updateState"
    /\ config.lowerThreshold # DefaultConfig.lowerThreshold
    /\ lastVolume >= Vol(DefaultConfig.lowerThreshold)
    /\ lastVolume < Vol(config.lowerThreshold)
    /\ currentState = "LOW"

\* C27: after every timer tick, and in every record endSession finalizes,
\* totalDuration is floor((now - startTime) / 1000) for the time at which the
\* tick or endSession ran, however many timer ticks fired before
C27_ElapsedTime ==
    [][ /\ (op' = "updateTimer" /\ currentSession' # NoSession)
              => currentSession'.totalDuration =
                    (now' - currentSession'.startTime) \div 1000
        /\ (op' \in {"endSession", "startSession"})
              => \A i \in 1..Len(handed') :
                    handed'[i].totalDuration =
                       (now' - handed'[i].startTime) \div 1000
        /\ (op' = "endSession" /\ isTracking)
              => /\ summary' # NoSession
                 /\ summary'.totalDuration =
                       (now' - currentSession.startTime) \div 1000
      ]_vars

\* a session of 2.8 s in which the timer fired once, late, and was dropped
\* once: the finalized record says 2 seconds
C27_Witness ==
    /\ op = "endSession"
    /\ summary # NoSession
    /\ now - summary.startTime = 14 * Granule
    /\ summary.totalDuration = 2
    /\ ticks = 1

\* every entry of the history names a state other than the one before it, the
\* first one a state other than the SILENT a session starts in
Alternating(history) ==
    \A i \in 1..Len(history) :
        history[i].state # (IF i = 1 THEN "SILENT" ELSE history[i - 1].state)

\* C28: within one session stateHistory only grows at its end: a tick that
\* changes the StateManager's state while the session is tracked appends the
\* one entry { state, timestamp, Math.round(volume) } of that tick, and every
\* other step (a tick without a change, a timer tick, a button, endSession)
\* leaves the history as it was; the entries' states alternate, starting from
\* a state other than SILENT
C28_TransitionHistory ==
    [][ /\ SameSession
          => currentSession'.stateHistory =
               IF op' = "tick" /\ isTracking /\ currentState' # currentState
               THEN Append(currentSession.stateHistory,
                           [ state |-> currentState', timestamp |-> now',
                             volume |-> MathRound(displayedVolume') ])
               ELSE currentSession.stateHistory
        /\ currentSession' # NoSession
          => Alternating(currentSession'.stateHistory)
      ]_vars

\* stateHistory only grows at its end, by the entry of a tick (a frame or the
\* first analyze() of a resumed analysis) that changes the StateManager's state, and every entry after the first names a state
\* other than the one before it
HistoryAfterFirstEntry ==
    [][ /\ SameSession
          => currentSession'.stateHistory =
               IF /\ op' \in {"tick", "togglePause"} /\ isTracking
                  /\ currentState' # currentState
               THEN Append(currentSession.stateHistory,
                           [ state |-> currentState', timestamp |-> now',
                             volume |-> MathRound(displayedVolume') ])
               ELSE currentSession.stateHistory
        /\ currentSession' # NoSession
          => \A i \in 2..Len(currentSession'.stateHistory) :
                 currentSession'.stateHistory[i].state
                     # currentSession'.stateHistory[i - 1].state
      ]_vars

\* endSession has finalized the tracker's record: the summary it returned is
\* a copy of that record's fields and shares the record's stateHistory array
Finalized == currentSession # NoSession /\ ~isTracking

\* C29: the summary endSession returns is the finalized record, and from then
\* on no step (tick, timer tick, pause button, closeModal, a later endSession
\* or startSession) writes to that record or to its stateHistory: the tracker
\* either keeps it as it is or drops it for the new record of a new session,
\* whose stateHistory is a new, empty array
C29_FinalizedImmutable ==
    [][ /\ (summary' # NoSession /\ ~isTracking')
          => summary' = currentSession'
        /\ Finalized
          => \/ currentSession' = currentSession
             \/ /\ isTracking'
                /\ currentSession'.sessionId # currentSession.sessionId
                /\ currentSession'.stateHistory = << >>
      ]_vars

\* after a summary the analysis was resumed with the pause button, and a tick
\* has moved the StateManager to a state the finalized record does not show
C29_Witness ==
    /\ Finalized
    /\ op = "tick"
    /\ Len(currentSession.stateHistory) >= 1
    /\ currentState # currentSession.currentState
    /\ currentState # previousState

\* C30: saveConfiguration puts the sliders' thresholds (the upper one moved
\* above the lower one if they were out of order) and persistence duration in
\* force, changes neither currentState nor displayedVolume nor the peak the
\* display holds, and calls no listener; every tick, the one right after a
\* save included, holds and decays with the persistence duration in force
\* before it and classifies the displayed value with the thresholds in force
\* before it
C30_ConfigurationNextTick ==
    [][ /\ op' = "save"
          => /\ config'.lowerThreshold = cfgInput'.lowerThreshold
             /\ config'.upperThreshold =
                   IF cfgInput'.lowerThreshold < cfgInput'.upperThreshold
                   THEN cfgInput'.upperThreshold
                   ELSE cfgInput'.lowerThreshold + bandGap
             /\ volumeHoldDuration' = cfgInput'.persistenceDuration
             /\ currentState' = currentState
             /\ previousState' = previousState
             /\ displayedVolume' = displayedVolume
             /\ lastSignificantVolume' = lastSignificantVolume
             /\ lastVolumeTimestamp' = lastVolumeTimestamp
             /\ notified' = << >>
             /\ currentSession' = currentSession
        /\ op' = "tick"
          => /\ displayedVolume' =
                   updateThermometer(sample', now', lastSignificantVolume,
                                     lastVolumeTimestamp,
                                     volumeHoldDuration).displayedVolume
             /\ currentState' = determineState(displayedVolume', config)
             /\ Len(notified') =
                   IF currentState' # currentState
                   THEN Len(stateChangeListeners) ELSE 0
      ]_vars

\* in a tracked session the settings have just been saved with thresholds
\* under which the value on display is in another zone than the one the
\* StateManager still reports, and with another persistence duration
C30_Witness ==
    /\ op = "save"
    /\ isTracking
    /\ Len(stateChangeListeners) > 0
    /\ currentState # determineState(displayedVolume, config)
    /\ volumeHoldDuration # defaultHoldDuration

\* C32: at most one callback of analyze() is pending at any time, none is
\* pending once stopAnalysis has returned and until startAnalysis is called
\* again, and no volume update is delivered in between
C32_FrameHandles ==
    [][ /\ pendingFrames' <= 1
        /\ ~isAnalyzing' => pendingFrames' = 0
        /\ op' = "tick" => isAnalyzing
      ]_vars

\* every volume update is delivered while the analyzer is analyzing, and the
\* handle the analyzer holds is that of a pending callback
FramesWhileAnalyzing ==
    /\ op = "tick" => isAnalyzing
    /\ isAnalyzing <=> animationFrameId # 0
    /\ isAnalyzing => pendingFrames >= 1

\* the configuration the StateManager holds has persistenceDuration 0, as
\* saved with the settings or as loaded from localStorage
ZeroPersistence ==
    /\ "persistenceDuration" \in DOMAIN config
    /\ config.persistenceDuration = 0

\* C31: while the configured persistenceDuration is 0, every tick whose
\* sample is not above lastSignificantVolume takes the decay branch and never
\* the hold branch
C31_ZeroPersistence ==
    [][ (op' = "tick" /\ ZeroPersistence /\ sample' <= lastSignificantVolume)
          => branch' \in {"decay", "reanchor"}
      ]_vars

\* while volumeHoldDuration itself is 0 every such tick takes the decay branch
ZeroHoldDecays ==
    [][ (op' = "tick" /\ volumeHoldDuration = 0
         /\ sample' <= lastSignificantVolume)
          => branch' \in {"decay", "reanchor"}
      ]_vars

\* the fill class that goes with a classified state
ClassOf(state) ==
    IF state = "DANGER" THEN "fill-high"
    ELSE IF state = "OPTIMAL" THEN "fill-optimal"
    ELSE "fill-low"

\* the threshold sliders are where saveConfiguration read them and the
\* StateManager holds their values as its thresholds
SlidersAsConfigured ==
    /\ cfgInput # NoInput
    /\ cfgInput.lowerThreshold = config.lowerThreshold
    /\ cfgInput.upperThreshold = config.upperThreshold

\* C33: after every tick, the threshold sliders being at the configured
\* thresholds, the fill is fill-high iff the state is DANGER, fill-optimal
\* iff it is OPTIMAL and fill-low iff it is LOW or SILENT
C33_BarColour ==
    (op = "tick" /\ SlidersAsConfigured)
      => fillClass(displayedVolume, cfgInput.lowerThreshold,
                   cfgInput.upperThreshold) = ClassOf(currentState)

\* ... for the displayed values that are not on the lower threshold, the
\* lower threshold being no lower than the silence level
BarColourOffThresholds ==
    (/\ op = "tick"
     /\ SlidersAsConfigured
     /\ displayedVolume # Vol(config.lowerThreshold)
     /\ config.lowerThreshold >= silenceLevel)
      => fillClass(displayedVolume, cfgInput.lowerThreshold,
                   cfgInput.upperThreshold) = ClassOf(currentState)

EndsSession ==
    /\ op' \in {"showSessionSummary", "destroy"}
    /\ isTracking

\* C35: the history gains one record with every session that
\* showSessionSummary or destroy ends and none otherwise; startNewSession in
\* particular adds no record and leaves exactly one active session with its
\* one timer
C35_NoSpuriousRecords ==
    [][ /\ Len(StoredHistory') =
             Len(StoredHistory) + (IF EndsSession THEN 1 ELSE 0)
        /\ op' = "startNewSession"
             => /\ isTracking'
                /\ Cardinality(intervals') = 1
      ]_vars

\* ... for every step but startNewSession
RecordsButNewSession ==
    [][ /\ op' # "startNewSession"
             => Len(StoredHistory') =
                  Len(StoredHistory) + (IF EndsSession THEN 1 ELSE 0)
        /\ op' = "startNewSession"
             => /\ isTracking'
                /\ Cardinality(intervals') = 1
                /\ Len(StoredHistory') <= Len(StoredHistory) + 1
      ]_vars

\* a step of the active session made while the app is paused and stays so
PausedStep ==
    /\ isPaused
    /\ isPaused'
    /\ isTracking
    /\ SameSession

\* C36: while the app is paused, greenZoneTime, peakVolume, dropCount and
\* stateHistory of the active session do not change, whatever the state was
\* when it was paused and however many timer ticks fire
C36_PauseFreezes ==
    [][ PausedStep
          => /\ currentSession'.greenZoneTime = currentSession.greenZoneTime
             /\ currentSession'.peakVolume = currentSession.peakVolume
             /\ currentSession'.dropCount = currentSession.dropCount
             /\ currentSession'.stateHistory = currentSession.stateHistory
      ]_vars

\* ... for peakVolume, dropCount and stateHistory, and for greenZoneTime
\* where the session was not in OPTIMAL when the timer ticked
PauseFreezesButGreen ==
    [][ PausedStep
          => /\ currentSession'.peakVolume = currentSession.peakVolume
             /\ currentSession'.dropCount = currentSession.dropCount
             /\ currentSession'.stateHistory = currentSession.stateHistory
             /\ currentSession'.currentState = currentSession.currentState
             /\ currentSession'.greenZoneTime =
                   currentSession.greenZoneTime
                   + (IF op' = "updateTimer"
                         /\ currentSession.currentState = "OPTIMAL"
                      THEN 1 ELSE 0)
      ]_vars

\* C37: after every startSession, endSession and timer tick a timer is
\* scheduled iff isTracking is true, never more than one is scheduled, the
\* one scheduled is the one timerInterval names, and every timer tick finds
\* the session it updates being tracked
C37_TimerMatchesSession ==
    [][ /\ (intervals' # {}) <=> isTracking'
        /\ Cardinality(intervals') <= 1
        /\ \A iv \in intervals' : iv.id = timerInterval'
        /\ isTracking' <=> (timerInterval' # 0)
        /\ op' = "updateTimer" => isTracking /\ currentSession # NoSession
      ]_vars

\* the timer of a session that startSession began while another one was
\* running has just fired
C37_Witness ==
    /\ op = "updateTimer"
    /\ isTracking
    /\ started >= 2
    /\ Len(StoredHistory) >= 1
    /\ Cardinality(intervals) = 1
    /\ currentSession.sessionId = started

\* C38: whenever a session is tracked, the currentState of its record is the
\* StateManager's currentState
C38_TrackerAgrees ==
    isTracking => currentSession.currentState = currentState

\* a tick of a tracked session (a frame, or the first analyze() of a resumed
\* analysis) leaves the record's currentState equal to the StateManager's
AgreesAfterTick ==
    (isTracking /\ op \in {"tick", "togglePause"} /\ ~isPaused)
        => currentSession.currentState = currentState

\* the calls deliver state to every listener, in the order of the list
DeliveredTo(calls, listeners, state) ==
    /\ Len(calls) = Len(listeners)
    /\ \A i \in 1..Len(calls) :
           /\ calls[i].listener = listeners[i]
           /\ calls[i].state = state

\* C39: the state last delivered to the listeners is the StateManager's
\* currentState: every step that leaves currentState other than it was
\* (a tick, reset() in startNewSession) delivers the new state to every
\* listener
C39_PresentedCurrent ==
    [][ currentState' # currentState
          => DeliveredTo(notified', stateChangeListeners', currentState') ]_vars

\* every step but startNewSession that leaves currentState other than it was
\* delivers the new state to every listener, and startNewSession does so when
\* its first analyze() classifies the display as
\* another state than SILENT
PresentedButReset ==
    [][ ( /\ currentState' # currentState
          /\ ~(op' = "startNewSession" /\ currentState' = "SILENT") )
          => DeliveredTo(notified', stateChangeListeners', currentState') ]_vars

\* the display shows the last sample and the StateManager reports its zone
Converged ==
    /\ displayedVolume = sample
    /\ currentState = determineState(sample, config)

====
